---- MODULE Spec2Model ----
(***************************************************************************)
(* redis-websocket-api: the websocket handler (reader task, listen loop,   *)
(* command dispatch, filter pipeline), the command mixins and the server's *)
(* registry, fan-out router and connection teardown.                       *)
(*                                                                         *)
(* Encoding of Python values.  TLC cannot compare a string with a record,  *)
(* so every value that shares a slot with None is a record: None is        *)
(* [py |-> "None"], a str in such a slot is [py |-> "str", s |-> ...], a   *)
(* dict is a record with its own keys (never a key named py).  Floats are  *)
(* integers counting tenths (2.1 is 21).  An inbound line is a sequence of *)
(* atoms: " " and "=" are the two characters the parser looks at, every    *)
(* other atom is a run of characters that are neither.                     *)
(***************************************************************************)
EXTENDS Integers, Sequences, FiniteSets, TLC

\* ------------------------------------------------------------------ bounds

\* Lines the clients send in one run, over all connections.
MaxLines == 2
\* Messages the backend publishes in one run.
MaxPub == 1
MaxGeoLines == 3

\* Backend messages published in the ordering specification.
MaxFifoPub == 2

\* The connections that may be accepted (remote addresses).
Conns == {1, 2}

\* ------------------------------------------------------------ Python values

None == [py |-> "None"]

PyStr(s) == [py |-> "str", s |-> s]

IsNone(v) == "py" \in DOMAIN v /\ v.py = "None"

IsDict(v) == "py" \notin DOMAIN v

\* dict.get(key) == value, for a str value.
DictGetIs(v, key, value) == IsDict(v) /\ key \in DOMAIN v /\ v[key] = value

RECURSIVE Join(_)
Join(atoms) == IF atoms = <<>> THEN "" ELSE Head(atoms) \o Join(Tail(atoms))

RECURSIVE SeqToSet(_)
SeqToSet(s) == IF s = <<>> THEN {} ELSE {Head(s)} \cup SeqToSet(Tail(s))

\* ------------------------------------------------------------------ frames

\* namedtuple Message(source, content); pub is the history tag of the backend
\* publication it carries (0: read from the client's transport).
Message(source, content, pub) == [source |-> source, content |-> content, pub |-> pub]

\* The dict _send serialises (timestamp left out: time is not modelled); pub
\* is the history tag of the backend publication it delivers (0: none).
Frame(source, data, client_reference, pub) ==
    [source |-> source, content |-> data, client_reference |-> client_reference,
     pub |-> pub]

StatusOpen == [status |-> "open"]

Pong == PyStr("PONG")

\* ------------------------------------------------------------- JSON payloads

\* A GeoJSON Feature as json.loads returns it.
Feature(type_, coordinates) ==
    [type |-> "Feature", geometry |-> [type |-> type_, coordinates |-> coordinates]]

FeatureCollection(features) == [type |-> "FeatureCollection", features |-> features]

\* The JSON texts of the model and the documents json.loads makes of them.
\* A text that is not listed does not parse (JSONDecodeError).
JsonTable ==
    << <<"{\"v\": 1}", [v |-> 1]>>,
       <<"{\"hello\": \"world\"}", [hello |-> "world"]>>,
       <<"\"PONG\"", PyStr("PONG")>>,
       <<"Point[2.1, 3.5]", Feature("Point", <<21, 35>>)>>,
       <<"Point[0.1, 3.5]", Feature("Point", <<1, 35>>)>>,
       <<"Point[1.0, 3.5]", Feature("Point", <<10, 35>>)>>,
       <<"Point[3.0, 4.0]", Feature("Point", <<30, 40>>)>>,
       <<"Point[2.1, 2.0]", Feature("Point", <<21, 20>>)>>,
       <<"Point[2.1, 4.0]", Feature("Point", <<21, 40>>)>>,
       <<"Point[3.0, 3.5]", Feature("Point", <<30, 35>>)>>,
       <<"LineString[[0.1, 3.5], [2.1, 3.4]]",
         Feature("LineString", << <<1, 35>>, <<21, 34>> >>)>>,
       <<"LineString[[0.1, 3.5], [5.1, 3.4]]",
         Feature("LineString", << <<1, 35>>, <<51, 34>> >>)>>,
       <<"Polygon[[[0.1, 3.5], [5.1, 3.4]], [[2.1, 3.4]]]",
         Feature("Polygon", << << <<1, 35>>, <<51, 34>> >>, << <<21, 34>> >> >>)>>,
       <<"Polygon[[[0.1, 3.5], [5.1, 3.4]]]",
         Feature("Polygon", << << <<1, 35>>, <<51, 34>> >> >>)>>,
       <<"MultiPoint[[0.1, 3.5], [2.1, 3.4]]",
         Feature("MultiPoint", << <<1, 35>>, <<21, 34>> >>)>>,
       <<"MultiPoint[[0.1, 3.5]]", Feature("MultiPoint", << <<1, 35>> >>)>>,
       <<"MultiPolygon[[[[0.1, 3.5]]], [[[5.1, 3.4], [2.1, 3.4]]]]",
         Feature("MultiPolygon", << << << <<1, 35>> >> >>,
                                    << << <<51, 34>>, <<21, 34>> >> >> >>)>>,
       <<"MultiUnknown[[0.1, 3.5]]", Feature("MultiUnknown", << <<1, 35>> >>)>>,
       <<"MultiLineString[[[0.1, 3.5], [5.1, 3.4]]]",
         Feature("MultiLineString", << << <<1, 35>>, <<51, 34>> >> >>)>>,
       <<"Unknown[[0.1, 3.5], [2.1, 3.4]]",
         Feature("Unknown", << <<1, 35>>, <<21, 34>> >>)>>,
       <<"MultiUnknown[]", Feature("MultiUnknown", <<>>)>>,
       <<"FeatureCollection[]", FeatureCollection(<<>>)>>,
       <<"FeatureCollection[Point[0.1, 3.5], Point[2.1, 3.5]]",
         FeatureCollection(<<Feature("Point", <<1, 35>>), Feature("Point", <<21, 35>>)>>)>>,
       <<"FeatureCollection[Point[0.1, 3.5]]",
         FeatureCollection(<<Feature("Point", <<1, 35>>)>>)>> >>

JsonTexts == {JsonTable[i][1] : i \in 1..Len(JsonTable)}

\* json.loads raises JSONDecodeError on text.
JSONDecodeError(text) == text \notin JsonTexts

\* json.loads(text), for a text that parses.
loads(text) == JsonTable[CHOOSE i \in 1..Len(JsonTable) : JsonTable[i][1] = text][2]

\* --------------------------------------------------------- inbound lines

\* str.split(): the maximal runs of atoms other than " "; cur is the run
\* being read.
RECURSIVE split(_, _)
split(atoms, cur) ==
    IF atoms = <<>>
    THEN IF cur = <<>> THEN <<>> ELSE <<cur>>
    ELSE IF Head(atoms) = " "
         THEN (IF cur = <<>> THEN <<>> ELSE <<cur>>) \o split(Tail(atoms), <<>>)
         ELSE split(Tail(atoms), Append(cur, Head(atoms)))

\* "=" in arg
HasEq(arg) == \E i \in 1..Len(arg) : arg[i] = "="

\* A split at the last "=".
FirstEq_last(arg) == CHOOSE i \in 1..Len(arg) : arg[i] = "=" /\ \A j \in (i + 1)..Len(arg) : arg[j] # "="

\* arg.split("=", 1): the place of the first "=".
FirstEq(arg) == CHOOSE i \in 1..Len(arg) : arg[i] = "=" /\ \A j \in 1..(i - 1) : arg[j] # "="

\* kwargs[name] = value
DictSet(d, name, value) == [n \in DOMAIN d \cup {name} |-> IF n = name THEN value ELSE d[n]]

EmptyDict == [n \in {} |-> ""]

\* The loop of _parse_remote_message over the arguments.
RECURSIVE ParseArgs(_, _, _)
ParseArgs(arguments, args, kwargs) ==
    IF arguments = <<>>
    THEN [args |-> args, kwargs |-> kwargs]
    ELSE LET arg == Head(arguments) IN
         IF HasEq(arg)
         THEN ParseArgs(Tail(arguments), args,
                        DictSet(kwargs, Join(SubSeq(arg, 1, FirstEq(arg) - 1)),
                                Join(SubSeq(arg, FirstEq(arg) + 1, Len(arg)))))
         ELSE ParseArgs(Tail(arguments), Append(args, Join(arg)), kwargs)

\* _parse_remote_message: exc is "ValueError" when the line holds no token
\* (command, *arguments = [] cannot be unpacked).
_parse_remote_message(message) ==
    LET tokens == split(message, <<>>) IN
    IF tokens = <<>>
    THEN [exc |-> "ValueError", command |-> "", args |-> <<>>, kwargs |-> EmptyDict]
    ELSE LET p == ParseArgs(Tail(tokens), <<>>, EmptyDict) IN
         [exc |-> "none", command |-> Join(Head(tokens)), args |-> p.args,
          kwargs |-> p.kwargs]

\* Python's binding of (*args, **kwargs) to a handler's parameters: params are
\* the names after self, the first nreq of them without a default.  TRUE when
\* the call raises TypeError.
BindError(params, nreq, args, kwargs) ==
    \/ Len(args) > Len(params)
    \/ \E n \in DOMAIN kwargs :
          \/ \A i \in 1..Len(params) : params[i] # n
          \/ \E i \in 1..Len(args) : i <= Len(params) /\ params[i] = n
    \/ \E i \in 1..nreq : i > Len(args) /\ params[i] \notin DOMAIN kwargs

\* The bound parameters: name -> value, a parameter left at its default None
\* is not in the domain.
Bind(params, args, kwargs) ==
    [n \in {params[i] : i \in 1..Len(args)} \cup DOMAIN kwargs |->
        IF n \in DOMAIN kwargs THEN kwargs[n]
        ELSE args[CHOOSE i \in 1..Len(args) : params[i] = n]]

\* A parameter's value as the handler sees it: None or the str.
Arg(b, name) == IF name \in DOMAIN b THEN PyStr(b[name]) ELSE None

\* ------------------------------------------------------- geo_protocol.py

BoundingBox(left, bottom, right, top) ==
    [left |-> left, bottom |-> bottom, right |-> right, top |-> top]

default_projection == "epsg:4326"

\* The default of the class attribute projection_in.
projection_in == default_projection

\* The identifiers pyproj resolves; Proj(init=value) raises RuntimeError on
\* any other.  A Proj object is modelled by its identifier (get_projection is
\* cached, one object per identifier).
Resolvable == {"epsg:4326", "epsg:3857", "epsg:2056"}

get_projection_raises(value) == value \notin Resolvable

\* pyproj.transform(p_in, p_out, x, y): a stand-in that is the identity only
\* between equal references and differs between different targets.
transform_projection(p_in, p_out, point) ==
    IF p_out = p_in THEN point
    ELSE IF p_out = "epsg:3857" THEN <<point[1] * 111, point[2] * 115>>
    ELSE <<point[1] + 2600, point[2] + 1200>>

_is_collection(data) == DictGetIs(data, "type", "FeatureCollection")

\* None, or the geometry type as a str.
_feature_type(data) ==
    IF DictGetIs(data, "type", "Feature") THEN PyStr(data.geometry.type) ELSE None

\* feature_type.startswith("Multi")
StartsWithMulti(feature_type) ==
    feature_type \in {"MultiPoint", "MultiLineString", "MultiPolygon", "MultiUnknown"}

\* feature_type[5:], for a type that starts with "Multi".
StripMulti(feature_type) ==
    CASE feature_type = "MultiPoint" -> "Point"
      [] feature_type = "MultiLineString" -> "LineString"
      [] feature_type = "MultiPolygon" -> "Polygon"
      [] OTHER -> "Unknown"

\* The types _feature_coords_in_bbox and _transform_coords handle; any other
\* raises NotImplementedError.
SupportedType(feature_type) == feature_type \in {"Polygon", "LineString", "Point"}

\* A point test that lets the edges of the box in.
_point_in_bbox_closed(point, bbox) ==
    /\ point[1] >= bbox.left
    /\ point[1] <= bbox.right
    /\ point[2] >= bbox.bottom
    /\ point[2] <= bbox.top

_point_in_bbox(point, bbox) ==
    /\ point[1] > bbox.left
    /\ point[1] < bbox.right
    /\ point[2] > bbox.bottom
    /\ point[2] < bbox.top

\* A test that asks every vertex to be in the box.
_feature_coords_in_bbox_every(bbox, feature_type, coords) ==
    CASE feature_type = "Polygon" ->
           \A r \in 1..Len(coords) : \A i \in 1..Len(coords[r]) :
               _point_in_bbox(coords[r][i], bbox)
      [] feature_type = "LineString" ->
           \A i \in 1..Len(coords) : _point_in_bbox(coords[i], bbox)
      [] OTHER -> _point_in_bbox(coords, bbox)

\* For a supported type.
_feature_coords_in_bbox(bbox, feature_type, coords) ==
    CASE feature_type = "Polygon" ->
           \E r \in 1..Len(coords) : \E i \in 1..Len(coords[r]) :
               _point_in_bbox(coords[r][i], bbox)
      [] feature_type = "LineString" ->
           \E i \in 1..Len(coords) : _point_in_bbox(coords[i], bbox)
      [] OTHER -> _point_in_bbox(coords, bbox)

\* _bbox_filter of a handler whose self.bbox is self_bbox.
RECURSIVE _bbox_filter(_, _, _)
_bbox_filter(self_bbox, data, bbox_arg) ==
    LET bbox == IF IsNone(bbox_arg) THEN self_bbox ELSE bbox_arg
        feature_type == _feature_type(data)
    IN  IF _is_collection(data)
        THEN \E i \in 1..Len(data.features) : _bbox_filter(self_bbox, data.features[i], bbox)
        ELSE IF ~IsNone(feature_type) /\ ~IsNone(bbox)
        THEN LET ft == feature_type.s
                 coords == data.geometry.coordinates
             IN  IF StartsWithMulti(ft)
                 THEN IF coords = <<>> THEN FALSE
                      ELSE IF ~SupportedType(StripMulti(ft)) THEN TRUE
                      ELSE \E i \in 1..Len(coords) :
                               _feature_coords_in_bbox(bbox, StripMulti(ft), coords[i])
                 ELSE IF ~SupportedType(ft) THEN TRUE
                      ELSE _feature_coords_in_bbox(bbox, ft, coords)
        ELSE TRUE

\* projection_out is the argument (None or a Proj).  raises is TRUE when the
\* call raises NotImplementedError.
_transform_coords_raises(feature_type, projection_out) ==
    /\ projection_out # PyStr(default_projection)
    /\ ~SupportedType(feature_type)

_transform_coords(self_projection_out, feature_type, coords, projection_out) ==
    LET target == IF ~IsNone(projection_out) THEN projection_out.s
                  ELSE self_projection_out.s
        f(point) == transform_projection(projection_in, target, point)
    IN  IF projection_out = PyStr(default_projection) THEN coords
        ELSE CASE feature_type = "LineString" ->
                    [i \in 1..Len(coords) |-> f(coords[i])]
               [] feature_type = "Polygon" ->
                    [r \in 1..Len(coords) |-> [i \in 1..Len(coords[r]) |-> f(coords[r][i])]]
               [] OTHER -> f(coords)

SetCoordinates(data, coords) ==
    [data EXCEPT !.geometry = [@ EXCEPT !.coordinates = coords]]

\* The document as _projection_filter leaves it (it always returns True).
RECURSIVE _projection_filter(_, _, _)
_projection_filter(self_projection_out, data, projection_out) ==
    LET feature_type == _feature_type(data) IN
    IF _is_collection(data)
    THEN [data EXCEPT !.features =
             [i \in 1..Len(data.features) |->
                 _projection_filter(self_projection_out, data.features[i], projection_out)]]
    ELSE IF (~IsNone(projection_out) \/ ~IsNone(self_projection_out)) /\ ~IsNone(feature_type)
    THEN LET ft == feature_type.s
             coords == data.geometry.coordinates
         IN  IF StartsWithMulti(ft)
             THEN IF coords # <<>> /\ _transform_coords_raises(StripMulti(ft), projection_out)
                  THEN data
                  ELSE SetCoordinates(data,
                          [i \in 1..Len(coords) |->
                              _transform_coords(self_projection_out, StripMulti(ft),
                                                coords[i], projection_out)])
             ELSE IF _transform_coords_raises(ft, projection_out)
                  THEN data
                  ELSE SetCoordinates(data,
                          _transform_coords(self_projection_out, ft, coords, projection_out))
    ELSE data

\* ------------------------------------------------------------------ state

VARIABLES
    store,          \* redis hashes: channel -> sequence of <<key, JSON text>>
    redis_calls,    \* the hget / hvals calls made on the redis client so far
    npub,           \* backend messages the router has received so far
    router_channel, \* redis_reader's channel_name of the last of them
    handlers,       \* WebsocketServer.handlers: the registered connections
    websocket,      \* per connection: "new" (not accepted yet), "open", "closed"
    consumer_task,  \* per connection, the _websocket_reader task:
                    \*   "none", "running", "done", "cancelled"
    listen_task,    \* per connection, the listen task (with its queue_reader):
                    \*   "none", "start", "wait", "reply", "check", "returned",
                    \*   "failed", "timeout", "cancelled"
    failure,        \* per connection, the exception the listen task failed with
    nrecv,          \* per connection, lines read from the transport so far
    queue,          \* per connection, handler.queue
    subscriptions,  \* per connection, handler.subscriptions
    filters,        \* per connection, the keys of handler.filters in order
    bbox,           \* per connection, handler.bbox
    projection_out, \* per connection, handler.projection_out
    pending,        \* per connection, frames the running handler has yet to send
    pending_exc,    \* per connection, what the running handler raises after them
    sent,           \* per connection, the frames written to the transport
    handled,        \* per connection, the queue items _queue_reader has taken
    mark            \* per connection, how many frames were sent before the
                    \*   last of them was taken

vars == <<store, redis_calls, npub, router_channel, handlers, websocket, consumer_task, listen_task,
          failure, nrecv, queue, subscriptions, filters, bbox, projection_out,
          pending, pending_exc, sent, handled, mark>>

\* ---------------------------------------------------------- configuration

\* allowed_commands of the handler class (WebsocketHandler with GeoCommandsMixin).
allowed_commands == {"SUB", "DEL", "PING", "GET", "BBOX", "PROJECTION", "PGET"}

\* WebsocketHandler.channel_names, as a subclass sets it.
channel_names == {"alpha", "egg", "websocket"}

\* WebsocketHandler.channel_is_allowed
channel_is_allowed(channel_name) == channel_name \in channel_names

\* str.lower() of a command name.
lower(command) ==
    CASE command = "SUB" -> "sub"
      [] command = "DEL" -> "del"
      [] command = "PING" -> "ping"
      [] command = "GET" -> "get"
      [] command = "BBOX" -> "bbox"
      [] command = "PROJECTION" -> "projection"
      [] command = "PGET" -> "pget"
      [] command = "Sub" -> "sub"
      [] OTHER -> command

\* float(arg) in tenths; any other token raises ValueError.
FloatTokens == {"0", "1", "2", "3", "4", "5"}

float(arg) ==
    CASE arg = "0" -> 0
      [] arg = "1" -> 10
      [] arg = "2" -> 20
      [] arg = "3" -> 30
      [] arg = "4" -> 40
      [] OTHER -> 50

\* ------------------------------------------------------------------ redis

\* redis.hget(channel_name, ref): the JSON text as a str, or None.
hget(channel_name, ref) ==
    LET h == IF channel_name \in DOMAIN store THEN store[channel_name] ELSE <<>> IN
    IF \E i \in 1..Len(h) : h[i][1] = ref
    THEN PyStr(h[CHOOSE i \in 1..Len(h) : h[i][1] = ref][2])
    ELSE None

\* redis.hvals(channel_name): the list of JSON texts.
hvals(channel_name) ==
    LET h == IF channel_name \in DOMAIN store THEN store[channel_name] ELSE <<>> IN
    [i \in 1..Len(h) |-> PyStr(h[i][2])]

\* ------------------------------------------------- handler.py: the filters

\* The handler's own state, as the command handlers read and write it.
Self(h) == [subscriptions |-> subscriptions[h], filters |-> filters[h],
            bbox |-> bbox[h], projection_out |-> projection_out[h]]

\* name in exclude: exclude is () by default (written "") or the str
\* "projection", of which the key must be a substring.
NameInExclude(name, exclude) == exclude = "projection" /\ name = "projection"

\* The generator all() consumes in _apply_filters: the filters run in the
\* order of their keys, each on the document the earlier ones left, and all()
\* stops at the first that returns False.
RECURSIVE RunFilters(_, _, _, _)
RunFilters(self, names, data, exclude) ==
    IF names = <<>> THEN [passes |-> TRUE, data |-> data]
    ELSE IF NameInExclude(Head(names), exclude)
    THEN RunFilters(self, Tail(names), data, exclude)
    ELSE IF Head(names) = "bbox"
    THEN IF _bbox_filter(self.bbox, data, None)
         THEN RunFilters(self, Tail(names), data, exclude)
         ELSE [passes |-> FALSE, data |-> data]
    ELSE RunFilters(self, Tail(names),
                    _projection_filter(self.projection_out, data, None), exclude)

\* An _apply_filters that lets every decodable message pass.
_apply_filters_pass(self, message, exclude) ==
    IF IsNone(message)
    THEN [exc |-> "none", passes |-> FALSE, data |-> None]
    ELSE IF JSONDecodeError(message.s)
    THEN [exc |-> "InternalMessageHandlerError", passes |-> FALSE, data |-> None]
    ELSE LET r == RunFilters(self, self.filters, loads(message.s), exclude) IN
         [exc |-> "none", passes |-> TRUE, data |-> r.data]

\* _apply_filters(message, exclude): message is None or a str.
_apply_filters(self, message, exclude) ==
    IF IsNone(message)
    THEN [exc |-> "none", passes |-> FALSE, data |-> None]
    ELSE IF JSONDecodeError(message.s)
    THEN [exc |-> "InternalMessageHandlerError", passes |-> FALSE, data |-> None]
    ELSE LET r == RunFilters(self, self.filters, loads(message.s), exclude) IN
         [exc |-> "none", passes |-> r.passes, data |-> r.data]

\* ------------------------------------------- protocol.py: command handlers

\* What running a handler does: the handler's state after it, the frames it
\* sends in order, the exception it then raises ("none": it returns), and
\* the redis calls it made.
Result(self, out, exc, calls) == [self |-> self, out |-> out, exc |-> exc, calls |-> calls]

TypeErrorResult(self) == Result(self, <<>>, "TypeError", <<>>)

\* A DEL that empties the set.
_handle_del_command_clear(self, args, kwargs) ==
    LET params == <<"channel_name">> IN
    IF BindError(params, 1, args, kwargs) THEN TypeErrorResult(self)
    ELSE Result([self EXCEPT !.subscriptions = {}], <<>>, "none", <<>>)

_handle_del_command(self, args, kwargs) ==
    LET params == <<"channel_name">> IN
    IF BindError(params, 1, args, kwargs) THEN TypeErrorResult(self)
    ELSE LET b == Bind(params, args, kwargs) IN
         Result([self EXCEPT !.subscriptions = @ \ {b.channel_name}], <<>>, "none", <<>>)

\* A SUB that does not ask channel_is_allowed.
_handle_sub_command_open(self, args, kwargs) ==
    LET params == <<"channel_name">> IN
    IF BindError(params, 1, args, kwargs) THEN TypeErrorResult(self)
    ELSE Result([self EXCEPT !.subscriptions =
                                 @ \cup {Bind(params, args, kwargs).channel_name}],
                <<>>, "none", <<>>)

_handle_sub_command(self, args, kwargs) ==
    LET params == <<"channel_name">> IN
    IF BindError(params, 1, args, kwargs) THEN TypeErrorResult(self)
    ELSE LET b == Bind(params, args, kwargs) IN
         IF channel_is_allowed(b.channel_name)
         THEN Result([self EXCEPT !.subscriptions = @ \cup {b.channel_name}],
                     <<>>, "none", <<>>)
         ELSE Result(self, <<>>, "none", <<>>)

\* A PING that answers twice.
_handle_ping_command_twice(self, args, kwargs) ==
    IF DOMAIN kwargs # {} THEN TypeErrorResult(self)
    ELSE Result(self, <<Frame("websocket", Pong, None, 0),
                        Frame("websocket", Pong, None, 0)>>, "none", <<>>)

\* _handle_ping_command(self, *args): any keyword argument is a TypeError.
_handle_ping_command(self, args, kwargs) ==
    IF DOMAIN kwargs # {} THEN TypeErrorResult(self)
    ELSE Result(self, <<Frame("websocket", Pong, None, 0)>>, "none", <<>>)

\* Frames sent so far and the exception that ended the loop ("none": it ran
\* to its end).
Sent(out, exc) == [out |-> out, exc |-> exc]

\* frames, then what the rest of the loop does.
Then(frames, rest) == Sent(frames \o rest.out, rest.exc)

\* The loop of _handle_get_command over the values of hvals: the frames sent
\* until a value fails to decode.
RECURSIVE GetValues(_, _, _, _)

\* A turn of the loop that sends the value whatever the filters said.
GetValue_unfiltered(self, f, values, channel_name, client_ref) ==
    IF f.exc # "none" THEN Sent(<<>>, f.exc)
    ELSE Then(<<Frame(channel_name, f.data, client_ref, 0)>>,
              GetValues(self, Tail(values), channel_name, client_ref))

\* One turn of that loop, f the result of _apply_filters on the first value.
GetValue(self, f, values, channel_name, client_ref) ==
    IF f.exc # "none" THEN Sent(<<>>, f.exc)
    ELSE Then(IF f.passes THEN <<Frame(channel_name, f.data, client_ref, 0)>> ELSE <<>>,
              GetValues(self, Tail(values), channel_name, client_ref))

GetValues(self, values, channel_name, client_ref) ==
    IF values = <<>> THEN Sent(<<>>, "none")
    ELSE GetValue(self, _apply_filters(self, Head(values), ""), values, channel_name,
                  client_ref)

\* A GET with a ref that leaves the client's reference out of the frame.
GetByRef_anonymous(self, f, source, client_ref, calls) ==
    IF f.exc # "none" THEN Result(self, <<>>, f.exc, calls)
    ELSE Result(self, <<Frame(source, f.data, None, 0)>>, "none", calls)

\* _handle_get_command with a ref: f is the result of _apply_filters on the
\* value of hget, whose passed flag is not looked at.
GetByRef(self, f, source, client_ref, calls) ==
    IF f.exc # "none" THEN Result(self, <<>>, f.exc, calls)
    ELSE Result(self, <<Frame(source, f.data, client_ref, 0)>>, "none", calls)

\* _handle_get_command without a ref: r is what the loop sent; when it sent
\* nothing, one frame with content None follows.
GetByChannel(self, r, channel_name, client_ref, calls) ==
    IF r.exc = "none" /\ r.out = <<>>
    THEN Result(self, <<Frame(channel_name, None, client_ref, 0)>>, "none", calls)
    ELSE Result(self, r.out, r.exc, calls)

GetAllowed(self, b) ==
    IF "ref" \in DOMAIN b
    THEN GetByRef(self, _apply_filters(self, hget(b.channel_name, b.ref), ""),
                  b.channel_name \o " " \o b.ref, Arg(b, "client_ref"),
                  << <<"hget", b.channel_name, b.ref>> >>)
    ELSE GetByChannel(self,
                      GetValues(self, hvals(b.channel_name), b.channel_name,
                                Arg(b, "client_ref")),
                      b.channel_name, Arg(b, "client_ref"),
                      << <<"hvals", b.channel_name>> >>)

\* A GET that does not ask channel_is_allowed.
GetBound_unchecked(self, b) == GetAllowed(self, b)

GetBound(self, b) ==
    IF ~channel_is_allowed(b.channel_name)
    THEN Result(self, <<>>, "none", <<>>)
    ELSE GetAllowed(self, b)

GetParams == <<"channel_name", "ref", "client_ref">>

_handle_get_command(self, args, kwargs) ==
    IF BindError(GetParams, 1, args, kwargs) THEN TypeErrorResult(self)
    ELSE GetBound(self, Bind(GetParams, args, kwargs))

\* ---------------------------------------- geo_protocol.py: command handlers

\* filters[name] = func on an OrderedDict: a new key goes last, a key that is
\* there keeps its place.
FiltersSet(names, name) ==
    IF \E i \in 1..Len(names) : names[i] = name THEN names ELSE Append(names, name)

\* filters.pop(name, None) / del filters[name]
FiltersRemove(names, name) == SelectSeq(names, LAMBDA n : n # name)

\* A BBOX that keeps the box of an installed filter.
_handle_bbox_command_first(self, args, kwargs) ==
    IF DOMAIN kwargs # {} THEN TypeErrorResult(self)
    ELSE IF Len(args) = 4
    THEN IF \E i \in 1..4 : args[i] \notin FloatTokens
         THEN Result(self, <<>>, "ValueError", <<>>)
         ELSE IF \E i \in 1..Len(self.filters) : self.filters[i] = "bbox"
         THEN Result(self, <<>>, "none", <<>>)
         ELSE Result([self EXCEPT
                        !.bbox = BoundingBox(float(args[1]), float(args[2]),
                                             float(args[3]), float(args[4])),
                        !.filters = FiltersSet(@, "bbox")],
                     <<>>, "none", <<>>)
    ELSE IF Len(args) = 0
    THEN Result([self EXCEPT !.filters = FiltersRemove(@, "bbox")], <<>>, "none", <<>>)
    ELSE Result(self, <<>>, "none", <<>>)

\* _handle_bbox_command(self, *args)
_handle_bbox_command(self, args, kwargs) ==
    IF DOMAIN kwargs # {} THEN TypeErrorResult(self)
    ELSE IF Len(args) = 4
    THEN IF \E i \in 1..4 : args[i] \notin FloatTokens
         THEN Result(self, <<>>, "ValueError", <<>>)
         ELSE Result([self EXCEPT
                        !.bbox = BoundingBox(float(args[1]), float(args[2]),
                                             float(args[3]), float(args[4])),
                        !.filters = FiltersSet(@, "bbox")],
                     <<>>, "none", <<>>)
    ELSE IF Len(args) = 0
    THEN Result([self EXCEPT !.filters = FiltersRemove(@, "bbox")], <<>>, "none", <<>>)
    ELSE Result(self, <<>>, "none", <<>>)

\* A PROJECTION that leaves the filter in place on the default identifier.
_handle_projection_command_keep(self, args, kwargs) ==
    IF DOMAIN kwargs # {} THEN TypeErrorResult(self)
    ELSE IF Len(args) # 1 THEN Result(self, <<>>, "none", <<>>)
    ELSE IF args[1] = default_projection
    THEN Result(self, <<>>, "none", <<>>)
    ELSE IF get_projection_raises(args[1]) THEN Result(self, <<>>, "none", <<>>)
    ELSE Result([self EXCEPT !.projection_out = PyStr(args[1]),
                             !.filters = FiltersSet(@, "projection")],
                <<>>, "none", <<>>)

\* A PROJECTION that drops the installed filter when the identifier does not
\* resolve.
_handle_projection_command_reset(self, args, kwargs) ==
    IF DOMAIN kwargs # {} THEN TypeErrorResult(self)
    ELSE IF Len(args) # 1 THEN Result(self, <<>>, "none", <<>>)
    ELSE IF args[1] = default_projection
    THEN Result([self EXCEPT !.filters = FiltersRemove(@, "projection")],
                <<>>, "none", <<>>)
    ELSE IF get_projection_raises(args[1])
    THEN Result([self EXCEPT !.filters = FiltersRemove(@, "projection")],
                <<>>, "none", <<>>)
    ELSE Result([self EXCEPT !.projection_out = PyStr(args[1]),
                             !.filters = FiltersSet(@, "projection")],
                <<>>, "none", <<>>)

\* _handle_projection_command(self, *args)
\* A PROJECTION that installs the filter before the identifier is resolved.
_handle_projection_command_early(self, args, kwargs) ==
    IF DOMAIN kwargs # {} THEN TypeErrorResult(self)
    ELSE IF Len(args) # 1 THEN Result(self, <<>>, "none", <<>>)
    ELSE IF args[1] = default_projection
    THEN Result([self EXCEPT !.filters = FiltersRemove(@, "projection")],
                <<>>, "none", <<>>)
    ELSE IF get_projection_raises(args[1])
    THEN Result([self EXCEPT !.filters = FiltersSet(@, "projection")], <<>>, "none", <<>>)
    ELSE Result([self EXCEPT !.projection_out = PyStr(args[1]),
                             !.filters = FiltersSet(@, "projection")],
                <<>>, "none", <<>>)

_handle_projection_command(self, args, kwargs) ==
    IF DOMAIN kwargs # {} THEN TypeErrorResult(self)
    ELSE IF Len(args) # 1 THEN Result(self, <<>>, "none", <<>>)
    ELSE IF args[1] = default_projection
    THEN Result([self EXCEPT !.filters = FiltersRemove(@, "projection")],
                <<>>, "none", <<>>)
    ELSE IF get_projection_raises(args[1]) THEN Result(self, <<>>, "none", <<>>)
    ELSE Result([self EXCEPT !.projection_out = PyStr(args[1]),
                             !.filters = FiltersSet(@, "projection")],
                <<>>, "none", <<>>)

\* The loop of _handle_pget_command over the values: passed is overwritten by
\* the result of _projection_filter, which is always True, so every value
\* that decodes is sent.
RECURSIVE PgetValues(_, _, _, _, _)

\* One turn of that loop, f the result of _apply_filters on the first value.
PgetValue(self, f, values, source, client_ref, p_out) ==
    IF f.exc # "none" THEN Sent(<<>>, f.exc)
    ELSE Then(<<Frame(source, _projection_filter(self.projection_out, f.data, p_out),
                      client_ref, 0)>>,
              PgetValues(self, Tail(values), source, client_ref, p_out))

\* A loop that runs the persistent "projection" filter as well.
PgetValues_persistent(self, values, source, client_ref, p_out) ==
    IF values = <<>> THEN Sent(<<>>, "none")
    ELSE PgetValue(self, _apply_filters(self, Head(values), ""), values,
                   source, client_ref, p_out)

PgetValues(self, values, source, client_ref, p_out) ==
    IF values = <<>> THEN Sent(<<>>, "none")
    ELSE PgetValue(self, _apply_filters(self, Head(values), "projection"), values,
                   source, client_ref, p_out)

\* projection or self.default_projection
PgetProjection(b) ==
    IF "projection" \in DOMAIN b /\ b.projection # "" THEN b.projection
    ELSE default_projection

PgetAllowed(self, b, projection_out_) ==
    IF "ref" \in DOMAIN b
    THEN GetByChannel(self,
                      PgetValues(self, <<hget(b.channel_name, b.ref)>>,
                                 b.channel_name \o " " \o b.ref, Arg(b, "client_ref"),
                                 projection_out_),
                      b.channel_name, Arg(b, "client_ref"),
                      << <<"hget", b.channel_name, b.ref>> >>)
    ELSE GetByChannel(self,
                      PgetValues(self, hvals(b.channel_name), b.channel_name,
                                 Arg(b, "client_ref"), projection_out_),
                      b.channel_name, Arg(b, "client_ref"),
                      << <<"hvals", b.channel_name>> >>)

PgetBound(self, b) ==
    IF ~channel_is_allowed(b.channel_name)
    THEN Result(self, <<>>, "none", <<>>)
    ELSE IF get_projection_raises(PgetProjection(b))
    THEN Result(self, <<>>, "RuntimeError", <<>>)
    ELSE PgetAllowed(self, b, PyStr(PgetProjection(b)))

PgetParams == <<"channel_name", "ref", "client_ref", "projection">>

_handle_pget_command(self, args, kwargs) ==
    IF BindError(PgetParams, 1, args, kwargs) THEN TypeErrorResult(self)
    ELSE PgetBound(self, Bind(PgetParams, args, kwargs))

\* -------------------------------------------------- handler.py: dispatch

\* getattr(self, "_handle_{}_command".format(command.lower()))(*args, **kwargs)
CallHandler(self, name, args, kwargs) ==
    CASE name = "sub" -> _handle_sub_command(self, args, kwargs)
      [] name = "del" -> _handle_del_command(self, args, kwargs)
      [] name = "ping" -> _handle_ping_command(self, args, kwargs)
      [] name = "get" -> _handle_get_command(self, args, kwargs)
      [] name = "bbox" -> _handle_bbox_command(self, args, kwargs)
      [] name = "projection" -> _handle_projection_command(self, args, kwargs)
      [] name = "pget" -> _handle_pget_command(self, args, kwargs)
      [] OTHER -> Result(self, <<>>, "AttributeError", <<>>)

\* A dispatch that raises on a command outside allowed_commands.
_handle_remote_message_strict(self, message) ==
    LET p == _parse_remote_message(message) IN
    IF p.exc # "none" \/ p.command \notin allowed_commands
    THEN Result(self, <<>>, "RemoteMessageHandlerError", <<>>)
    ELSE LET r == CallHandler(self, lower(p.command), p.args, p.kwargs) IN
         Result(r.self, r.out,
                IF r.exc = "none" THEN "none" ELSE "RemoteMessageHandlerError", r.calls)

\* A dispatch that lets the handler's own exception through.
_handle_remote_message_raw(self, message) ==
    LET p == _parse_remote_message(message) IN
    IF p.exc # "none" THEN Result(self, <<>>, p.exc, <<>>)
    ELSE IF p.command \notin allowed_commands THEN Result(self, <<>>, "none", <<>>)
    ELSE CallHandler(self, lower(p.command), p.args, p.kwargs)

\* _handle_remote_message: every exception but CancelledError leaves it as a
\* RemoteMessageHandlerError.
_handle_remote_message(self, message) ==
    LET p == _parse_remote_message(message) IN
    IF p.exc # "none" THEN Result(self, <<>>, "RemoteMessageHandlerError", <<>>)
    ELSE IF p.command \notin allowed_commands THEN Result(self, <<>>, "none", <<>>)
    ELSE LET r == CallHandler(self, lower(p.command), p.args, p.kwargs) IN
         Result(r.self, r.out,
                IF r.exc = "none" THEN "none" ELSE "RemoteMessageHandlerError", r.calls)

\* ------------------------------------------------------------ environment

\* An inbound line from its words: the atoms with single spaces between the
\* words, a word holding "=" given as its atoms.
Line1(a) == a
Line2(a, b) == a \o <<" ">> \o b
Line3(a, b, c) == a \o <<" ">> \o b \o <<" ">> \o c
Line4(a, b, c, d) == a \o <<" ">> \o b \o <<" ">> \o c \o <<" ">> \o d
Line5(a, b, c, d, e) == a \o <<" ">> \o b \o <<" ">> \o c \o <<" ">> \o d \o <<" ">> \o e

\* The payloads the backend publishes where the channel name matters, each
\* with its atoms as str.split() and "=" cut it.
PayloadTable ==
    << <<"PING", Line1(<<"PING">>)>>,
       <<"SUB egg", Line2(<<"SUB">>, <<"egg">>)>>,
       <<"{\"v\": 1}", Line2(<<"{\"v\":">>, <<"1}">>)>> >>

\* What _queue_reader hands to _handle_remote_message: the content of the
\* item, which is the line read from the transport or, for an item the
\* router put, the payload of the backend message.
RemoteLine(item) ==
    IF item.pub = 0 THEN item.content
    ELSE PayloadTable[CHOOSE i \in 1..Len(PayloadTable) :
                          PayloadTable[i][1] = item.content.s][2]

\* The lines the clients of the whole system send.
SysLines ==
    { Line2(<<"SUB">>, <<"alpha">>),
      Line2(<<"DEL">>, <<"alpha">>),
      Line1(<<"PING">>),
      Line1(<<"SUB">>) }

\* The lines the client of the fair specification sends.
FairLines ==
    { Line2(<<"SUB">>, <<"alpha">>),
      Line1(<<"PING">>) }

\* The lines the clients of the lifecycle specification send: a command that
\* succeeds and one that raises.
LifeLines ==
    { Line2(<<"SUB">>, <<"alpha">>),
      Line1(<<"SUB">>) }

\* The lines the client of the ordering specification sends, and what the
\* backend publishes on alpha.
FifoLines ==
    { Line2(<<"SUB">>, <<"alpha">>),
      Line1(<<"PING">>) }

FifoTexts == {"{\"v\": 1}", "{\"hello\": \"world\"}"}

\* The lines the clients of the two-session geo specification send, and the
\* points the backend publishes on egg: one inside the box (1, 2, 3, 4), one
\* outside.
PerConnLines ==
    { Line2(<<"SUB">>, <<"egg">>),
      Line2(<<"DEL">>, <<"egg">>),
      Line5(<<"BBOX">>, <<"1">>, <<"2">>, <<"3">>, <<"4">>),
      Line2(<<"PROJECTION">>, <<"epsg:3857">>) }

PerConnTexts == {"Point[2.1, 3.5]", "Point[0.1, 3.5]"}

\* The lines the client of the filter specification sends: the commands that
\* build the pipeline, and a GET of a key the hash egg does not hold.
ApplyLines ==
    { Line2(<<"SUB">>, <<"egg">>),
      Line5(<<"BBOX">>, <<"1">>, <<"2">>, <<"3">>, <<"4">>),
      Line2(<<"PROJECTION">>, <<"epsg:3857">>),
      Line3(<<"GET">>, <<"egg">>, <<"nokey">>) }

\* The lines the client of the channel-name specification sends, and the
\* channels and payloads of the backend.
InjectLines ==
    { Line2(<<"SUB">>, <<"websocket">>),
      Line2(<<"SUB">>, <<"alpha">>) }

InjectChannels == {"websocket", "alpha"}

InjectTexts == {PayloadTable[i][1] : i \in 1..Len(PayloadTable)}

\* The lines the client of the reply specification sends: commands answered
\* with several frames and with one, and a subscription.
ReplyLines ==
    { Line2(<<"SUB">>, <<"egg">>),
      Line2(<<"GET">>, <<"egg">>),
      Line2(<<"PGET">>, <<"egg">>),
      Line1(<<"PING">>) }

\* The lines the client of the pipeline specification sends: BBOX and
\* PROJECTION that install, remove, are ignored or fail, and PGET.
KeyLines ==
    { Line5(<<"BBOX">>, <<"1">>, <<"2">>, <<"3">>, <<"4">>),
      Line1(<<"BBOX">>),
      Line5(<<"BBOX">>, <<"1">>, <<"2">>, <<"3">>, <<"x">>),
      Line2(<<"PROJECTION">>, <<"epsg:3857">>),
      Line2(<<"PROJECTION">>, <<"epsg:4326">>),
      Line2(<<"PROJECTION">>, <<"bogus">>),
      Line2(<<"PGET">>, <<"egg">>),
      Line3(<<"PGET">>, <<"egg">>, <<"projection", "=", "epsg:2056">>) }

\* The lines the clients of the subscription specification send.
SubLines ==
    { Line2(<<"SUB">>, <<"alpha">>),
      Line2(<<"SUB">>, <<"egg">>),
      Line2(<<"SUB">>, <<"secret">>),
      Line2(<<"DEL">>, <<"alpha">>),
      Line1(<<"PING">>) }

\* The lines the client of the parsing specification sends: commands in
\* lower, mixed and upper case, two spaces between words, a named argument
\* last and first, a value that holds "=".
ParseLines ==
    { Line1(<<"ping">>),
      Line2(<<"Sub">>, <<"alpha">>),
      Line1(<<"PING">>),
      Line2(<<"SUB">>, <<"alpha">>),
      Line2(<<"SUB", " ">>, <<"egg">>),
      Line4(<<"GET">>, <<"egg">>, <<"ref">>, <<"cref">>),
      Line4(<<"GET">>, <<"egg">>, <<"ref">>, <<"client_ref", "=", "cref">>),
      Line4(<<"GET">>, <<"client_ref", "=", "cref">>, <<"egg">>, <<"ref">>),
      Line4(<<"GET">>, <<"egg">>, <<"ref">>, <<"client_ref", "=", "b", "=", "c">>) }

\* The lines the client of the geo specification sends: a box, a box with
\* left > right and bottom > top, BBOX with no and with two arguments, the
\* default and another projection, and the GET that shows what passes.
GeoLines ==
    { Line5(<<"BBOX">>, <<"1">>, <<"2">>, <<"3">>, <<"4">>),
      Line5(<<"BBOX">>, <<"3">>, <<"4">>, <<"1">>, <<"2">>),
      Line1(<<"BBOX">>),
      Line3(<<"BBOX">>, <<"1">>, <<"2">>),
      Line2(<<"PROJECTION">>, <<"epsg:4326">>),
      Line2(<<"PROJECTION">>, <<"epsg:3857">>),
      Line2(<<"GET">>, <<"egg">>) }

\* The lines the client of the projection specification sends.
ProjLines ==
    { Line2(<<"PROJECTION">>, <<"epsg:4326">>),
      Line2(<<"PROJECTION">>, <<"epsg:3857">>),
      Line2(<<"GET">>, <<"egg">>),
      Line2(<<"SUB">>, <<"egg">>) }

\* The JSON texts the backend publishes on egg in the projection
\* specification.
ProjBackendTexts == {"Point[2.1, 3.5]", "LineString[[0.1, 3.5], [2.1, 3.4]]"}

\* The lines the client of the edge-case specification sends: BBOX with four
\* and with two arguments, PROJECTION with two resolvable identifiers, one
\* that does not resolve, no argument and two arguments, GET, and PGET with
\* and without a ref and with a projection that does not resolve.
EdgeLines ==
    { Line5(<<"BBOX">>, <<"1">>, <<"2">>, <<"3">>, <<"4">>),
      Line3(<<"BBOX">>, <<"1">>, <<"2">>),
      Line2(<<"PROJECTION">>, <<"epsg:3857">>),
      Line2(<<"PROJECTION">>, <<"epsg:2056">>),
      Line2(<<"PROJECTION">>, <<"bogus">>),
      Line1(<<"PROJECTION">>),
      Line3(<<"PROJECTION">>, <<"epsg:3857">>, <<"epsg:2056">>),
      Line2(<<"GET">>, <<"egg">>),
      Line2(<<"PGET">>, <<"egg">>),
      Line3(<<"PGET">>, <<"egg">>, <<"p2">>),
      Line3(<<"PGET">>, <<"egg">>, <<"projection", "=", "bogus">>) }

\* The lines the client of the PGET specification sends.
PgetLines ==
    { Line2(<<"SUB">>, <<"egg">>),
      Line5(<<"BBOX">>, <<"1">>, <<"2">>, <<"3">>, <<"4">>),
      Line2(<<"PROJECTION">>, <<"epsg:3857">>),
      Line2(<<"PGET">>, <<"egg">>),
      Line3(<<"PGET">>, <<"egg">>, <<"projection", "=", "epsg:2056">>),
      Line3(<<"PGET">>, <<"egg">>, <<"projection", "=", "epsg:4326">>) }

\* The JSON text the backend publishes on egg in the PGET specification.
PgetBackendTexts == {"Point[2.1, 3.5]"}

\* The lines the client of the single-session specification sends.
CmdLines ==
    { Line1(<<>>),
      Line1(<<"SUB">>),
      Line1(<<"GET">>),
      Line2(<<"unknown">>, <<"cmd">>),
      Line2(<<"HGETALL">>, <<"alpha">>),
      Line2(<<"SUB">>, <<"alpha">>),
      Line2(<<"SUB">>, <<"secret">>),
      Line2(<<"DEL">>, <<"alpha">>),
      Line1(<<"PING">>),
      Line2(<<"GET">>, <<"alpha">>),
      Line2(<<"GET">>, <<"egg">>),
      Line2(<<"GET">>, <<"secret">>),
      Line3(<<"GET">>, <<"egg">>, <<"ref">>),
      Line3(<<"GET">>, <<"egg">>, <<"nil">>),
      Line4(<<"GET">>, <<"egg">>, <<"nil">>, <<"cref">>),
      Line4(<<"GET">>, <<"egg">>, <<"nil">>, <<"client_ref", "=", "cref">>),
      Line3(<<"GET">>, <<"secret">>, <<"ref">>),
      Line5(<<"GET">>, <<"egg">>, <<"ref">>, <<"cref">>, <<"more">>),
      Line5(<<"BBOX">>, <<"1">>, <<"2">>, <<"3">>, <<"4">>),
      Line1(<<"BBOX">>),
      Line2(<<"PGET">>, <<"secret">>),
      Line3(<<"PGET">>, <<"secret">>, <<"ref">>),
      Line3(<<"PGET">>, <<"secret">>, <<"projection", "=", "epsg:3857">>),
      Line3(<<"PGET">>, <<"secret">>, <<"projection", "=", "bogus">>),
      Line2(<<"PGET">>, <<"egg">>) }

\* The channels the backend publishes on and the JSON texts it publishes.
BackendChannels == {"alpha", "egg"}

BackendTexts == {"{\"v\": 1}", "{oops"}

\* The redis hashes of the model.
StoreA ==
    [alpha |-> << <<"k1", "{\"v\": 1}">>, <<"k2", "{\"hello\": \"world\"}">> >>,
     egg |-> << <<"ref", "Point[0.1, 3.5]">>, <<"in", "Point[2.1, 3.5]">> >>]

StoreB ==
    [alpha |-> <<>>,
     egg |-> << <<"ref", "Point[0.1, 3.5]">> >>]

StoreC ==
    [alpha |-> << <<"k1", "{oops">> >>,
     egg |-> << <<"in", "Point[2.1, 3.5]">>, <<"ref", "{oops">> >>]

Stores == {StoreA, StoreB, StoreC}

\* A hash egg with documents of every kind of geometry: points inside,
\* outside, on each edge and on a corner of the box (1, 2, 3, 4), line
\* strings, polygons, Multi types (one of them empty), types that are not
\* supported, collections and a document that is no feature.
StoreGeo ==
    [alpha |-> <<>>,
     egg |-> << <<"p1", "Point[2.1, 3.5]">>,
                <<"p2", "Point[0.1, 3.5]">>,
                <<"p3", "Point[1.0, 3.5]">>,
                <<"p4", "Point[3.0, 4.0]">>,
                <<"p5", "Point[2.1, 2.0]">>,
                <<"p6", "Point[2.1, 4.0]">>,
                <<"p7", "Point[3.0, 3.5]">>,
                <<"l1", "LineString[[0.1, 3.5], [2.1, 3.4]]">>,
                <<"l2", "LineString[[0.1, 3.5], [5.1, 3.4]]">>,
                <<"g1", "Polygon[[[0.1, 3.5], [5.1, 3.4]], [[2.1, 3.4]]]">>,
                <<"g2", "Polygon[[[0.1, 3.5], [5.1, 3.4]]]">>,
                <<"m1", "MultiPoint[[0.1, 3.5], [2.1, 3.4]]">>,
                <<"m2", "MultiPoint[[0.1, 3.5]]">>,
                <<"m3", "MultiLineString[[[0.1, 3.5], [5.1, 3.4]]]">>,
                <<"m4", "MultiPolygon[[[[0.1, 3.5]]], [[[5.1, 3.4], [2.1, 3.4]]]]">>,
                <<"u1", "Unknown[[0.1, 3.5], [2.1, 3.4]]">>,
                <<"u2", "MultiUnknown[]">>,
                <<"u3", "MultiUnknown[[0.1, 3.5]]">>,
                <<"c1", "FeatureCollection[]">>,
                <<"c2", "FeatureCollection[Point[0.1, 3.5], Point[2.1, 3.5]]">>,
                <<"c3", "FeatureCollection[Point[0.1, 3.5]]">>,
                <<"d1", "{\"v\": 1}">> >>]

\* A hash egg with a point inside the box (1, 2, 3, 4), a point outside it
\* and a feature of a type that is not supported.
StoreP ==
    [alpha |-> <<>>,
     egg |-> << <<"p1", "Point[2.1, 3.5]">>,
                <<"p2", "Point[0.1, 3.5]">>,
                <<"u1", "Unknown[[0.1, 3.5], [2.1, 3.4]]">> >>]

\* ------------------------------------------------------------------- Init

\* Nothing is accepted yet; a handler starts as __init__ and the class
\* attributes of GeoCommandsMixin make it.
InitWith(stores) ==
    /\ store \in stores
    /\ redis_calls = <<>>
    /\ npub = 0
    /\ router_channel = ""
    /\ handlers = {}
    /\ websocket = [h \in Conns |-> "new"]
    /\ consumer_task = [h \in Conns |-> "none"]
    /\ listen_task = [h \in Conns |-> "none"]
    /\ failure = [h \in Conns |-> "none"]
    /\ nrecv = [h \in Conns |-> 0]
    /\ queue = [h \in Conns |-> <<>>]
    /\ subscriptions = [h \in Conns |-> {}]
    /\ filters = [h \in Conns |-> <<>>]
    /\ bbox = [h \in Conns |-> None]
    /\ projection_out = [h \in Conns |-> None]
    /\ pending = [h \in Conns |-> <<>>]
    /\ pending_exc = [h \in Conns |-> "none"]
    /\ sent = [h \in Conns |-> <<>>]
    /\ handled = [h \in Conns |-> <<>>]
    /\ mark = [h \in Conns |-> 0]

Init == InitWith({StoreA})

\* ------------------------------------------------- server.py: connections

Active == {"start", "wait", "reply", "forward", "check"}

\* websocket_handler up to asyncio.wait: create() starts the reader task, the
\* handler is registered, the listen task is created.  Addresses are taken in
\* order.
Connect(h) ==
    /\ websocket[h] = "new"
    /\ \A g \in Conns : g < h => websocket[g] # "new"
    /\ websocket' = [websocket EXCEPT ![h] = "open"]
    /\ consumer_task' = [consumer_task EXCEPT ![h] = "running"]
    /\ handlers' = handlers \cup {h}
    /\ listen_task' = [listen_task EXCEPT ![h] = "start"]
    /\ UNCHANGED <<store, redis_calls, npub, router_channel, failure, nrecv, queue, subscriptions,
                   filters, bbox, projection_out, pending, pending_exc, sent, handled, mark>>

\* The peer closes the transport: recv() raises ConnectionClosed in
\* _websocket_reader, which returns.
PeerClose(h) ==
    /\ websocket[h] = "open"
    /\ websocket' = [websocket EXCEPT ![h] = "closed"]
    /\ consumer_task' = [consumer_task EXCEPT ![h] = IF @ = "running" THEN "done" ELSE @]
    /\ UNCHANGED <<store, redis_calls, npub, router_channel, handlers, listen_task,
                   failure, nrecv, queue, subscriptions, filters, bbox,
                   projection_out, pending, pending_exc, sent, handled, mark>>

RECURSIVE SumOver(_, _)
SumOver(f, S) ==
    IF S = {} THEN 0 ELSE LET x == CHOOSE x \in S : TRUE IN f[x] + SumOver(f, S \ {x})

\* Lines read from all transports so far.
TotalRecv == SumOver(nrecv, Conns)

\* A reader that puts the line at the front of the queue.
ReaderRecvWithin_front(h, line, max) ==
    /\ consumer_task[h] = "running"
    /\ websocket[h] = "open"
    /\ TotalRecv < max
    /\ nrecv' = [nrecv EXCEPT ![h] = @ + 1]
    /\ queue' = [queue EXCEPT ![h] = <<Message("websocket", line, 0)>> \o @]
    /\ UNCHANGED <<store, redis_calls, npub, router_channel, handlers, websocket, consumer_task,
                   listen_task, failure, subscriptions, filters, bbox,
                   projection_out, pending, pending_exc, sent, handled, mark>>

\* _websocket_reader: one recv() and queue.put(), while fewer than max lines
\* were read.
ReaderRecvWithin(h, line, max) ==
    /\ consumer_task[h] = "running"
    /\ websocket[h] = "open"
    /\ TotalRecv < max
    /\ nrecv' = [nrecv EXCEPT ![h] = @ + 1]
    /\ queue' = [queue EXCEPT ![h] = Append(@, Message("websocket", line, 0))]
    /\ UNCHANGED <<store, redis_calls, npub, router_channel, handlers, websocket, consumer_task,
                   listen_task, failure, subscriptions, filters, bbox,
                   projection_out, pending, pending_exc, sent, handled, mark>>

ReaderRecv(h, line) == ReaderRecvWithin(h, line, MaxLines)

\* ---------------------------------------------- handler.py: the listen task

\* The listen task ends with exception exc.
Fail(h, exc) ==
    /\ listen_task' = [listen_task EXCEPT ![h] = "failed"]
    /\ failure' = [failure EXCEPT ![h] = exc]
    /\ pending' = [pending EXCEPT ![h] = <<>>]
    /\ pending_exc' = [pending_exc EXCEPT ![h] = "none"]

\* A listen that enters the loop without the status frame.
ListenOpen_silent(h) ==
    /\ listen_task[h] = "start"
    /\ listen_task' = [listen_task EXCEPT ![h] = "check"]
    /\ UNCHANGED <<store, redis_calls, npub, router_channel, handlers, websocket, consumer_task,
                   failure, nrecv, queue, subscriptions, filters, bbox,
                   projection_out, pending, pending_exc, sent, handled, mark>>

\* listen: the status frame, sent before the loop is entered.
ListenOpen(h) ==
    /\ listen_task[h] = "start"
    /\ IF websocket[h] = "open"
       THEN /\ sent' = [sent EXCEPT ![h] = Append(@, Frame("websocket", StatusOpen, None, 0))]
            /\ listen_task' = [listen_task EXCEPT ![h] = "check"]
            /\ UNCHANGED <<failure, pending, pending_exc>>
       ELSE /\ Fail(h, "ConnectionClosed")
            /\ UNCHANGED sent
    /\ UNCHANGED <<store, redis_calls, npub, router_channel, handlers, websocket, consumer_task,
                   nrecv, queue, subscriptions, filters, bbox, projection_out, handled, mark>>

\* listen: while self.websocket.open, start the next _queue_reader.
LoopCheck(h) ==
    /\ listen_task[h] = "check"
    /\ listen_task' = [listen_task EXCEPT ![h] =
                          IF websocket[h] = "open" THEN "wait" ELSE "returned"]
    /\ UNCHANGED <<store, redis_calls, npub, router_channel, handlers, websocket, consumer_task,
                   failure, nrecv, queue, subscriptions, filters, bbox,
                   projection_out, pending, pending_exc, sent, handled, mark>>

\* A handler that assigns the box and the output projection to the class
\* attributes, which every handler without its own reads.
HandleRemote_shared(h) ==
    /\ listen_task[h] = "wait"
    /\ queue[h] # <<>>
    /\ Head(queue[h]).source = "websocket"
    /\ LET r == _handle_remote_message(Self(h), RemoteLine(Head(queue[h]))) IN
       /\ queue' = [queue EXCEPT ![h] = Tail(@)]
       /\ handled' = [handled EXCEPT ![h] = Append(@, Head(queue[h]))]
       /\ mark' = [mark EXCEPT ![h] = Len(sent[h])]
       /\ subscriptions' = [subscriptions EXCEPT ![h] = r.self.subscriptions]
       /\ filters' = [filters EXCEPT ![h] = r.self.filters]
       /\ bbox' = [g \in Conns |-> r.self.bbox]
       /\ projection_out' = [g \in Conns |-> r.self.projection_out]
       /\ redis_calls' = redis_calls \o r.calls
       /\ IF r.out # <<>>
          THEN /\ listen_task' = [listen_task EXCEPT ![h] = "reply"]
               /\ pending' = [pending EXCEPT ![h] = r.out]
               /\ pending_exc' = [pending_exc EXCEPT ![h] = r.exc]
               /\ UNCHANGED failure
          ELSE IF r.exc # "none"
          THEN Fail(h, r.exc)
          ELSE /\ listen_task' = [listen_task EXCEPT ![h] = "check"]
               /\ UNCHANGED <<failure, pending, pending_exc>>
    /\ UNCHANGED <<store, npub, router_channel, handlers, websocket, consumer_task, nrecv, sent>>

\* _queue_reader takes a line of the client: _handle_remote_message runs up
\* to its first send.
HandleRemote(h) ==
    /\ listen_task[h] = "wait"
    /\ queue[h] # <<>>
    /\ Head(queue[h]).source = "websocket"
    /\ LET r == _handle_remote_message(Self(h), RemoteLine(Head(queue[h]))) IN
       /\ queue' = [queue EXCEPT ![h] = Tail(@)]
       /\ handled' = [handled EXCEPT ![h] = Append(@, Head(queue[h]))]
       /\ mark' = [mark EXCEPT ![h] = Len(sent[h])]
       /\ subscriptions' = [subscriptions EXCEPT ![h] = r.self.subscriptions]
       /\ filters' = [filters EXCEPT ![h] = r.self.filters]
       /\ bbox' = [bbox EXCEPT ![h] = r.self.bbox]
       /\ projection_out' = [projection_out EXCEPT ![h] = r.self.projection_out]
       /\ redis_calls' = redis_calls \o r.calls
       /\ IF r.out # <<>>
          THEN /\ listen_task' = [listen_task EXCEPT ![h] = "reply"]
               /\ pending' = [pending EXCEPT ![h] = r.out]
               /\ pending_exc' = [pending_exc EXCEPT ![h] = r.exc]
               /\ UNCHANGED failure
          ELSE IF r.exc # "none"
          THEN Fail(h, r.exc)
          ELSE /\ listen_task' = [listen_task EXCEPT ![h] = "check"]
               /\ UNCHANGED <<failure, pending, pending_exc>>
    /\ UNCHANGED <<store, npub, router_channel, handlers, websocket, consumer_task, nrecv, sent>>

\* A _queue_reader that takes a message of the router while the handler of
\* the item before is still sending.
HandleBackend_eager(h) ==
    /\ listen_task[h] \in {"wait", "reply", "forward"}
    /\ queue[h] # <<>>
    /\ Head(queue[h]).source # "websocket"
    /\ LET m == Head(queue[h])
           f == _apply_filters(Self(h), m.content, "")
       IN  /\ queue' = [queue EXCEPT ![h] = Tail(@)]
           /\ handled' = [handled EXCEPT ![h] = Append(@, Head(queue[h]))]
           /\ mark' = [mark EXCEPT ![h] = Len(sent[h])]
           /\ IF f.exc # "none"
              THEN Fail(h, f.exc)
              ELSE IF f.passes
              THEN /\ listen_task' = [listen_task EXCEPT ![h] = "forward"]
                   /\ pending' = [pending EXCEPT ![h] = <<Frame(m.source, f.data, None, m.pub)>>]
                   /\ UNCHANGED <<failure, pending_exc>>
              ELSE /\ listen_task' = [listen_task EXCEPT ![h] = "check"]
                   /\ UNCHANGED <<failure, pending, pending_exc>>
    /\ UNCHANGED <<store, redis_calls, npub, router_channel, handlers, websocket, consumer_task,
                   nrecv, subscriptions, filters, bbox, projection_out, sent>>

\* A _queue_reader that takes a message of the router and forwards nothing.
HandleBackend_drop(h) ==
    /\ listen_task[h] = "wait"
    /\ queue[h] # <<>>
    /\ Head(queue[h]).source # "websocket"
    /\ queue' = [queue EXCEPT ![h] = Tail(@)]
    /\ handled' = [handled EXCEPT ![h] = Append(@, Head(queue[h]))]
    /\ mark' = [mark EXCEPT ![h] = Len(sent[h])]
    /\ listen_task' = [listen_task EXCEPT ![h] = "check"]
    /\ UNCHANGED <<store, redis_calls, npub, router_channel, handlers, websocket, consumer_task,
                   failure, nrecv, subscriptions, filters, bbox, projection_out,
                   pending, pending_exc, sent>>

\* _queue_reader takes a message of the router: _apply_filters, up to the send.
HandleBackend(h) ==
    /\ listen_task[h] = "wait"
    /\ queue[h] # <<>>
    /\ Head(queue[h]).source # "websocket"
    /\ LET m == Head(queue[h])
           f == _apply_filters(Self(h), m.content, "")
       IN  /\ queue' = [queue EXCEPT ![h] = Tail(@)]
           /\ handled' = [handled EXCEPT ![h] = Append(@, Head(queue[h]))]
           /\ mark' = [mark EXCEPT ![h] = Len(sent[h])]
           /\ IF f.exc # "none"
              THEN Fail(h, f.exc)
              ELSE IF f.passes
              THEN /\ listen_task' = [listen_task EXCEPT ![h] = "forward"]
                   /\ pending' = [pending EXCEPT ![h] = <<Frame(m.source, f.data, None, m.pub)>>]
                   /\ UNCHANGED <<failure, pending_exc>>
              ELSE /\ listen_task' = [listen_task EXCEPT ![h] = "check"]
                   /\ UNCHANGED <<failure, pending, pending_exc>>
    /\ UNCHANGED <<store, redis_calls, npub, router_channel, handlers, websocket, consumer_task,
                   nrecv, subscriptions, filters, bbox, projection_out, sent>>

\* A second writer: while a reply is being sent, a backend message that waits
\* at the head of the queue is written to the transport first.
SendReply_racing(h) ==
    /\ listen_task[h] = "reply"
    /\ IF websocket[h] = "open" /\ queue[h] # <<>> /\ Head(queue[h]).pub > 0
       THEN /\ sent' = [sent EXCEPT ![h] =
                           Append(@, Frame(Head(queue[h]).source,
                                           loads(Head(queue[h]).content.s), None,
                                           Head(queue[h]).pub))]
            /\ queue' = [queue EXCEPT ![h] = Tail(@)]
            /\ UNCHANGED <<listen_task, failure, pending, pending_exc>>
       ELSE /\ UNCHANGED queue
            /\ IF websocket[h] = "open"
               THEN /\ sent' = [sent EXCEPT ![h] = Append(@, Head(pending[h]))]
                    /\ IF Tail(pending[h]) # <<>>
                       THEN /\ pending' = [pending EXCEPT ![h] = Tail(@)]
                            /\ UNCHANGED <<listen_task, failure, pending_exc>>
                       ELSE IF pending_exc[h] # "none"
                       THEN Fail(h, pending_exc[h])
                       ELSE /\ listen_task' = [listen_task EXCEPT ![h] = "check"]
                            /\ pending' = [pending EXCEPT ![h] = <<>>]
                            /\ UNCHANGED <<failure, pending_exc>>
               ELSE /\ Fail(h, "RemoteMessageHandlerError")
                    /\ UNCHANGED sent
    /\ UNCHANGED <<store, redis_calls, npub, router_channel, handlers, websocket, consumer_task,
                   nrecv, subscriptions, filters, bbox, projection_out, handled, mark>>

\* A command handler's next _send; ConnectionClosed raised by it leaves
\* _handle_remote_message as a RemoteMessageHandlerError.  After the last
\* frame the handler returns or raises what it raises.
SendReply(h) ==
    /\ listen_task[h] = "reply"
    /\ IF websocket[h] = "open"
       THEN /\ sent' = [sent EXCEPT ![h] = Append(@, Head(pending[h]))]
            /\ IF Tail(pending[h]) # <<>>
               THEN /\ pending' = [pending EXCEPT ![h] = Tail(@)]
                    /\ UNCHANGED <<listen_task, failure, pending_exc>>
               ELSE IF pending_exc[h] # "none"
               THEN Fail(h, pending_exc[h])
               ELSE /\ listen_task' = [listen_task EXCEPT ![h] = "check"]
                    /\ pending' = [pending EXCEPT ![h] = <<>>]
                    /\ UNCHANGED <<failure, pending_exc>>
       ELSE /\ Fail(h, "RemoteMessageHandlerError")
            /\ UNCHANGED sent
    /\ UNCHANGED <<store, redis_calls, npub, router_channel, handlers, websocket, consumer_task,
                   nrecv, queue, subscriptions, filters, bbox, projection_out, handled, mark>>

\* _queue_reader's _send of a backend message that passed the filters.
SendForward(h) ==
    /\ listen_task[h] = "forward"
    /\ IF websocket[h] = "open"
       THEN /\ sent' = [sent EXCEPT ![h] = Append(@, Head(pending[h]))]
            /\ listen_task' = [listen_task EXCEPT ![h] = "check"]
            /\ pending' = [pending EXCEPT ![h] = <<>>]
            /\ UNCHANGED <<failure, pending_exc>>
       ELSE /\ Fail(h, "ConnectionClosed")
            /\ UNCHANGED sent
    /\ UNCHANGED <<store, redis_calls, npub, router_channel, handlers, websocket, consumer_task,
                   nrecv, queue, subscriptions, filters, bbox, projection_out, handled, mark>>

\* ------------------------------------------------ server.py: router, teardown

\* A router that hands every message to every registered handler.
Publish_all(channel_name, text) ==
    /\ npub < MaxPub
    /\ npub' = npub + 1
    /\ router_channel' = channel_name
    /\ queue' = [h \in Conns |->
                    IF h \in handlers
                    THEN Append(queue[h], Message(channel_name, PyStr(text), npub + 1))
                    ELSE queue[h]]
    /\ UNCHANGED <<store, redis_calls, handlers, websocket, consumer_task,
                   listen_task, failure, nrecv, subscriptions, filters, bbox,
                   projection_out, pending, pending_exc, sent, handled, mark>>

\* A pass over a registry of the past: a handler that has left the registry
\* since is still examined.
PublishWithin_stale(channel_name, text, max) ==
    /\ npub < max
    /\ npub' = npub + 1
    /\ router_channel' = channel_name
    /\ queue' = [h \in Conns |->
                    IF channel_name \in subscriptions[h]
                    THEN Append(queue[h], Message(channel_name, PyStr(text), npub + 1))
                    ELSE queue[h]]
    /\ UNCHANGED <<store, redis_calls, handlers, websocket, consumer_task,
                   listen_task, failure, nrecv, subscriptions, filters, bbox,
                   projection_out, pending, pending_exc, sent, handled, mark>>

\* redis_reader: one message of the backend and the pass over the registry,
\* while fewer than max messages were published.
PublishWithin(channel_name, text, max) ==
    /\ npub < max
    /\ npub' = npub + 1
    /\ router_channel' = channel_name
    /\ queue' = [h \in Conns |->
                    IF h \in handlers /\ channel_name \in subscriptions[h]
                    THEN Append(queue[h], Message(channel_name, PyStr(text), npub + 1))
                    ELSE queue[h]]
    /\ UNCHANGED <<store, redis_calls, handlers, websocket, consumer_task,
                   listen_task, failure, nrecv, subscriptions, filters, bbox,
                   projection_out, pending, pending_exc, sent, handled, mark>>

Publish(channel_name, text) == PublishWithin(channel_name, text, MaxPub)

\* asyncio.wait_for(handler.listen(), keep_alive_timeout) runs out.
Timeout(h) ==
    /\ listen_task[h] \in Active
    /\ listen_task' = [listen_task EXCEPT ![h] = "timeout"]
    /\ pending' = [pending EXCEPT ![h] = <<>>]
    /\ pending_exc' = [pending_exc EXCEPT ![h] = "none"]
    /\ UNCHANGED <<store, redis_calls, npub, router_channel, handlers, websocket, consumer_task,
                   failure, nrecv, queue, subscriptions, filters, bbox,
                   projection_out, sent, handled, mark>>

\* A teardown that closes the transport and leaves the reader task running.
Teardown_orphan(h) ==
    /\ h \in handlers
    /\ listen_task[h] \notin Active \/ websocket[h] = "closed"
    /\ handlers' = handlers \ {h}
    /\ listen_task' = [listen_task EXCEPT ![h] = IF @ \in Active THEN "cancelled" ELSE @]
    /\ websocket' = [websocket EXCEPT ![h] = "closed"]
    /\ pending' = [pending EXCEPT ![h] = <<>>]
    /\ pending_exc' = [pending_exc EXCEPT ![h] = "none"]
    /\ UNCHANGED <<store, redis_calls, npub, router_channel, consumer_task, failure, nrecv, queue,
                   subscriptions, filters, bbox, projection_out, sent, handled, mark>>

\* websocket_handler after asyncio.wait: the listen task or wait_closed() is
\* done; the handler leaves the registry, the listen task is cancelled,
\* handler.close() closes the transport and cancels the tasks.
Teardown(h) ==
    /\ h \in handlers
    /\ listen_task[h] \notin Active \/ websocket[h] = "closed"
    /\ handlers' = handlers \ {h}
    /\ listen_task' = [listen_task EXCEPT ![h] = IF @ \in Active THEN "cancelled" ELSE @]
    /\ websocket' = [websocket EXCEPT ![h] = "closed"]
    /\ consumer_task' = [consumer_task EXCEPT ![h] = IF @ = "running" THEN "cancelled" ELSE @]
    /\ pending' = [pending EXCEPT ![h] = <<>>]
    /\ pending_exc' = [pending_exc EXCEPT ![h] = "none"]
    /\ UNCHANGED <<store, redis_calls, npub, router_channel, failure, nrecv, queue, subscriptions,
                   filters, bbox, projection_out, sent, handled, mark>>

\* ------------------------------------------------------- specifications

\* One connection's tasks.
Session(h) ==
    \/ ListenOpen(h)
    \/ LoopCheck(h)
    \/ HandleRemote(h)
    \/ HandleBackend(h)
    \/ SendReply(h)
    \/ SendForward(h)

Next ==
    \/ \E h \in Conns : Connect(h)
    \/ \E h \in Conns : PeerClose(h)
    \/ \E h \in Conns : \E line \in SysLines : ReaderRecv(h, line)
    \/ \E h \in Conns : Session(h)
    \/ \E c \in BackendChannels : \E text \in BackendTexts : Publish(c, text)
    \/ \E h \in Conns : Timeout(h)
    \/ \E h \in Conns : Teardown(h)

\* The whole system: clients, sessions, router and teardown.
Spec == Init /\ [][Next]_vars

\* One session on its own and the commands of its client, with every kind of
\* line, over each of the stores; the backend publishes nothing.
InitCmd == InitWith(Stores)

NextCmd ==
    \/ Connect(1)
    \/ PeerClose(1)
    \/ \E line \in CmdLines : ReaderRecv(1, line)
    \/ ListenOpen(1)
    \/ LoopCheck(1)
    \/ HandleRemote(1)
    \/ SendReply(1)
    \/ Timeout(1)
    \/ Teardown(1)

SpecCmd == InitCmd /\ [][NextCmd]_vars

\* One session, its client and the router publishing on alpha, with the event
\* loop running every task that can run: the session's next step is taken if
\* it stays possible.  The client, the backend, the peer's close and the
\* timeout owe nothing.
NextFair ==
    \/ Connect(1)
    \/ PeerClose(1)
    \/ \E line \in FairLines : ReaderRecv(1, line)
    \/ Session(1)
    \/ \E text \in BackendTexts : Publish("alpha", text)
    \/ Timeout(1)
    \/ Teardown(1)

FairSpec == Init /\ [][NextFair]_vars /\ WF_vars(Session(1))

\* Two sessions and their clients' SUB and DEL lines; the backend publishes
\* nothing and no command replies.
NextParse ==
    \/ Connect(1)
    \/ PeerClose(1)
    \/ \E line \in ParseLines : ReaderRecv(1, line)
    \/ ListenOpen(1)
    \/ LoopCheck(1)
    \/ HandleRemote(1)
    \/ SendReply(1)
    \/ Timeout(1)
    \/ Teardown(1)

\* One session that is sent the parsing lines.
SpecParse == Init /\ [][NextParse]_vars

InitGeo == InitWith({StoreGeo})

NextGeo ==
    \/ Connect(1)
    \/ PeerClose(1)
    \/ \E line \in GeoLines : ReaderRecvWithin(1, line, MaxGeoLines)
    \/ ListenOpen(1)
    \/ LoopCheck(1)
    \/ HandleRemote(1)
    \/ SendReply(1)
    \/ Timeout(1)
    \/ Teardown(1)

\* One session over the store of geometries, sent the geo lines.
SpecGeo == InitGeo /\ [][NextGeo]_vars

NextProj ==
    \/ Connect(1)
    \/ PeerClose(1)
    \/ \E line \in ProjLines : ReaderRecvWithin(1, line, MaxGeoLines)
    \/ Session(1)
    \/ \E text \in ProjBackendTexts : Publish("egg", text)
    \/ Timeout(1)
    \/ Teardown(1)

\* One session over the store of geometries, sent the projection lines, and
\* the router publishing on egg.
SpecProj == InitGeo /\ [][NextProj]_vars

InitEdge == InitWith({StoreP})

NextEdge ==
    \/ Connect(1)
    \/ PeerClose(1)
    \/ \E line \in EdgeLines : ReaderRecvWithin(1, line, MaxGeoLines)
    \/ ListenOpen(1)
    \/ LoopCheck(1)
    \/ HandleRemote(1)
    \/ SendReply(1)
    \/ Timeout(1)
    \/ Teardown(1)

\* One session over the small hash, sent the edge-case lines.
SpecEdge == InitEdge /\ [][NextEdge]_vars

NextPget ==
    \/ Connect(1)
    \/ PeerClose(1)
    \/ \E line \in PgetLines : ReaderRecvWithin(1, line, MaxGeoLines)
    \/ Session(1)
    \/ \E text \in PgetBackendTexts : Publish("egg", text)
    \/ Timeout(1)
    \/ Teardown(1)

\* One session over the small hash, sent the PGET lines, and the router
\* publishing on egg.
SpecPget == InitEdge /\ [][NextPget]_vars

NextSubs ==
    \/ \E h \in Conns : Connect(h)
    \/ \E h \in Conns : PeerClose(h)
    \/ \E h \in Conns : \E line \in SubLines : ReaderRecv(h, line)
    \/ \E h \in Conns : ListenOpen(h)
    \/ \E h \in Conns : LoopCheck(h)
    \/ \E h \in Conns : HandleRemote(h)
    \/ \E h \in Conns : SendReply(h)
    \/ \E h \in Conns : Timeout(h)
    \/ \E h \in Conns : Teardown(h)

SpecSubs == Init /\ [][NextSubs]_vars

\* ------------------------------------------------------------ vocabulary

Last(seq) == seq[Len(seq)]

\* The frames sent for the last item _queue_reader took.
ReplyFrames(h) == SubSeq(sent[h], mark[h] + 1, Len(sent[h]))

\* The last item taken is a line of the client.
LastIsLine(h) == handled[h] # <<>> /\ Last(handled[h]).source = "websocket"

\* The last line taken, parsed (only where LastIsLine).
LastParsed(h) == _parse_remote_message(Last(handled[h]).content)

\* The handling of the last item has run to its end without an exception.
Completed(h) == listen_task[h] \in {"check", "wait", "returned"}

\* This step, _queue_reader takes an item from h's queue.
Takes(h) == Len(handled'[h]) = Len(handled[h]) + 1

\* This step, a frame is written to h's transport.
Sends(h) == Len(sent'[h]) = Len(sent[h]) + 1

\* h's filter, bounding box, projection and subscription state stays as it is.
SameHandlerState(h) ==
    /\ subscriptions'[h] = subscriptions[h]
    /\ filters'[h] = filters[h]
    /\ bbox'[h] = bbox[h]
    /\ projection_out'[h] = projection_out[h]

\* ------------------------------------------------------------------ C1

\* C1: in every interleaving, the first frame written to a connection's
\* transport is the status frame {"status": "open"} with source "websocket";
\* no PONG, GET reply or backend frame comes before it.
C1_FirstFrameIsOpen ==
    \A h \in Conns :
        sent[h] # <<>> =>
            /\ sent[h][1].source = "websocket"
            /\ sent[h][1].content = StatusOpen
            /\ sent[h][1].pub = 0

\* A session that sent its status frame and then a PONG and a backend frame.
C1_Witness ==
    \E h \in Conns :
        /\ Len(sent[h]) >= 3
        /\ sent[h][1].content = StatusOpen
        /\ \E i \in 2..Len(sent[h]) : sent[h][i].pub > 0
        /\ \E i \in 2..Len(sent[h]) : sent[h][i].content = Pong

\* ------------------------------------------------------------------ C2

\* C2: when the router receives a backend message on channel C, it appends
\* one message with source C to the queue of every registered connection
\* whose subscriptions hold C at that moment, and leaves every other queue
\* as it is.
C2_FanoutExactlySubscribed ==
    [][npub' = npub + 1 =>
         \A h \in Conns :
            IF h \in handlers /\ router_channel' \in subscriptions[h]
            THEN /\ Len(queue'[h]) = Len(queue[h]) + 1
                 /\ SubSeq(queue'[h], 1, Len(queue[h])) = queue[h]
                 /\ Last(queue'[h]).source = router_channel'
                 /\ Last(queue'[h]).pub = npub'
            ELSE queue'[h] = queue[h]]_vars

\* Two registered connections, one subscribed to the channel of the message
\* and holding it in its queue, the other not subscribed and without it.
C2_Witness ==
    \E h \in handlers : \E g \in handlers :
        /\ npub > 0
        /\ router_channel \in subscriptions[h]
        /\ \E i \in 1..Len(queue[h]) : queue[h][i].pub = npub
        /\ router_channel \notin subscriptions[g]
        /\ \A i \in 1..Len(queue[g]) : queue[g][i].pub = 0

\* ------------------------------------------------------------------ C3

\* A line SUB c waits in h's queue.
SubIssued(h, c) ==
    \E i \in 1..Len(queue[h]) :
        /\ queue[h][i].source = "websocket"
        /\ _parse_remote_message(queue[h][i].content).command = "SUB"
        /\ _parse_remote_message(queue[h][i].content).args = <<c>>

\* C3: once DEL C has been handled, the connection gets no frame of a
\* backend message with source C until it issues SUB C again: whenever such a
\* frame is sent, C is in the subscriptions or a SUB C is on its way.
C3_NoFrameAfterDel ==
    [][\A h \in Conns :
          (Sends(h) /\ Last(sent'[h]).pub > 0) =>
              \/ Last(sent'[h]).source \in subscriptions[h]
              \/ SubIssued(h, Last(sent'[h]).source)]_vars

\* ------------------------------------------------------------------ C4

\* The backend message with tag k waits in h's queue and its payload decodes.
Queued(h, k) ==
    \E i \in 1..Len(queue[h]) :
        /\ queue[h][i].pub = k
        /\ ~JSONDecodeError(queue[h][i].content.s)

\* A frame of the backend message with tag k has been sent to h.
Delivered(h, k) == \E i \in 1..Len(sent[h]) : sent[h][i].pub = k

\* The session is open: the transport is open and the listen task runs.
SessionOpen(h) == websocket[h] = "open" /\ listen_task[h] \in Active

\* Every frame of a backend message carries the source of that message and,
\* with no filter installed, its decoded payload; no message has two frames.
C4_AtMostOnceAsPublished ==
    \A h \in Conns : \A i \in 1..Len(sent[h]) :
        sent[h][i].pub > 0 =>
            /\ \A j \in 1..Len(sent[h]) : sent[h][j].pub = sent[h][i].pub => j = i
            /\ \E j \in 1..Len(handled[h]) :
                  /\ handled[h][j].pub = sent[h][i].pub
                  /\ sent[h][i].source = handled[h][j].source
                  /\ filters[h] = <<>> =>
                         sent[h][i].content = loads(handled[h][j].content.s)

\* C4: a decodable backend message that the router put on the queue of a
\* subscribed connection is delivered to the client as one frame with the
\* message's source and its decoded payload, exactly once: eventually, as long
\* as the session stays open and no filter is installed, and never twice.
C4_DeliveredExactlyOnce ==
    /\ []C4_AtMostOnceAsPublished
    /\ \A k \in 1..MaxPub :
          Queued(1, k) ~> (Delivered(1, k) \/ ~SessionOpen(1) \/ filters[1] # <<>>)

\* The client subscribed to alpha has got the frame of the message published
\* on alpha, with the decoded payload.
C4_Witness ==
    \E h \in Conns : \E i \in 1..Len(sent[h]) :
        /\ sent[h][i].pub > 0
        /\ sent[h][i].source = "alpha"
        /\ sent[h][i].content = [v |-> 1]
        /\ SessionOpen(h)

\* ------------------------------------------------------------------ C5

\* This step, _queue_reader takes a line of the client from h's queue.
TakesLine(h) == Takes(h) /\ Head(queue[h]).source = "websocket"

\* The line taken this step, parsed (only where TakesLine).
TakenParsed(h) == _parse_remote_message(Head(queue[h]).content)

\* The step left the session as it was and in its loop: nothing sent, nothing
\* read from redis, no exception, the handler's state as before.
NoOpStep(h) ==
    /\ sent'[h] = sent[h]
    /\ redis_calls' = redis_calls
    /\ SameHandlerState(h)
    /\ failure'[h] = failure[h]
    /\ listen_task'[h] = "check"

\* C5: taking a line that parses and whose command is not in allowed_commands
\* sends nothing, raises nothing, leaves subscriptions and filters as they
\* were and leaves the session in its loop, ready for the next item.
C5_DisallowedCommandIgnored ==
    [][\A h \in Conns :
          (/\ TakesLine(h)
           /\ TakenParsed(h).exc = "none"
           /\ TakenParsed(h).command \notin allowed_commands)
          => NoOpStep(h)]_vars

\* A session took a line with a command outside allowed_commands and then a
\* PING, which it answered.
C5_Witness ==
    /\ Len(handled[1]) = 2
    /\ handled[1][1].content \in {Line2(<<"unknown">>, <<"cmd">>), Line2(<<"HGETALL">>, <<"alpha">>)}
    /\ handled[1][2].content = Line1(<<"PING">>)
    /\ Len(sent[1]) = 2
    /\ sent[1][2].content = Pong
    /\ failure[1] = "none"
    /\ listen_task[1] = "check"

\* ------------------------------------------------------------------ C6

\* Handling the line on a handler in state self fails: the line holds no
\* token, or its allowed command's handler raises.
HandlingFails(self, line) ==
    \/ _parse_remote_message(line).exc # "none"
    \/ /\ _parse_remote_message(line).command \in allowed_commands
       /\ CallHandler(self, lower(_parse_remote_message(line).command),
                      _parse_remote_message(line).args,
                      _parse_remote_message(line).kwargs).exc # "none"

\* After a line whose handling fails, the listen task is still sending the
\* frames that precede the exception, or has ended; when it ended with an
\* exception, that exception is RemoteMessageHandlerError.
C6_FailureIsFatal ==
    \A h \in Conns :
        (LastIsLine(h) /\ HandlingFails(Self(h), Last(handled[h]).content)) =>
            /\ listen_task[h] \in {"reply", "failed", "timeout", "cancelled"}
            /\ listen_task[h] = "failed" => failure[h] = "RemoteMessageHandlerError"

\* A listen task that ended with an exception takes no further item and sends
\* no further frame.
C6_FailedStaysFailed ==
    \A h \in Conns :
        listen_task[h] = "failed" =>
            /\ listen_task'[h] = "failed"
            /\ failure'[h] = failure[h]
            /\ sent'[h] = sent[h]
            /\ handled'[h] = handled[h]
            /\ SameHandlerState(h)

\* Cancelling the listen task while a handler waits in a send ends the task
\* as cancelled: no RemoteMessageHandlerError is recorded.
C6_CancelNotConverted ==
    \A h \in Conns :
        (listen_task[h] = "reply" /\ listen_task'[h] \in {"timeout", "cancelled"}) =>
            /\ failure'[h] = failure[h]
            /\ failure'[h] # "RemoteMessageHandlerError"

\* C6: a failure while handling a client line (no token, arguments that do
\* not fit the handler, an exception in the handler) ends the listen task with
\* RemoteMessageHandlerError, after which the session takes no further command
\* and sends no further frame; a cancellation during handling is passed on as
\* it is and is not turned into that error.
C6_HandlerFailureTerminates ==
    /\ []C6_FailureIsFatal
    /\ [][C6_FailedStaysFailed /\ C6_CancelNotConverted]_vars

\* A bare SUB ended the session with RemoteMessageHandlerError while a further
\* line of the client waits in the queue.
C6_Witness ==
    /\ listen_task[1] = "failed"
    /\ failure[1] = "RemoteMessageHandlerError"
    /\ Last(handled[1]).content = Line1(<<"SUB">>)
    /\ queue[1] # <<>>

\* ------------------------------------------------------------------ C7

\* The last line taken is a GET whose arguments fit _handle_get_command.
LastIsGet(h) ==
    /\ LastIsLine(h)
    /\ LastParsed(h).exc = "none"
    /\ LastParsed(h).command = "GET"
    /\ ~BindError(GetParams, 1, LastParsed(h).args, LastParsed(h).kwargs)

\* The arguments of that GET (only where LastIsGet).
LastGet(h) == Bind(GetParams, LastParsed(h).args, LastParsed(h).kwargs)

\* The stored values of the channel that pass the handler's filters.
Passing(h, channel_name) ==
    SelectSeq(hvals(channel_name), LAMBDA v : _apply_filters(Self(h), v, "").passes)

\* C7: when GET channel without ref on an allowed channel has run to its end,
\* its reply is one frame with source channel per stored value that passes the
\* filters, in the store's order, or, when no value passes, the single frame
\* with source channel and content None; never both.
C7_GetAlwaysReplies ==
    \A h \in Conns :
        (/\ Completed(h)
         /\ LastIsGet(h)
         /\ "ref" \notin DOMAIN LastGet(h)
         /\ channel_is_allowed(LastGet(h).channel_name))
        => /\ ReplyFrames(h) # <<>>
           /\ IF Passing(h, LastGet(h).channel_name) = <<>>
              THEN ReplyFrames(h) = <<Frame(LastGet(h).channel_name, None,
                                            Arg(LastGet(h), "client_ref"), 0)>>
              ELSE /\ Len(ReplyFrames(h)) = Len(Passing(h, LastGet(h).channel_name))
                   /\ \A i \in 1..Len(ReplyFrames(h)) :
                         /\ ReplyFrames(h)[i].source = LastGet(h).channel_name
                         /\ ~IsNone(ReplyFrames(h)[i].content)
                         /\ ReplyFrames(h)[i].content =
                                _apply_filters(Self(h), Passing(h, LastGet(h).channel_name)[i], "").data

\* With the bounding box filter installed, GET egg was answered with the one
\* of the two stored features that lies in the box.
C7_Witness ==
    /\ Completed(1)
    /\ LastIsGet(1)
    /\ LastGet(1) = [channel_name |-> "egg"]
    /\ filters[1] = <<"bbox">>
    /\ Len(hvals("egg")) = 2
    /\ Len(ReplyFrames(1)) = 1
    /\ ~IsNone(ReplyFrames(1)[1].content)

\* ------------------------------------------------------------------ C8

C9_GetRejectedRefIsNull ==
    \A h \in Conns :
        (/\ Completed(h)
         /\ LastIsGet(h)
         /\ "ref" \in DOMAIN LastGet(h)
         /\ channel_is_allowed(LastGet(h).channel_name)
         /\ ~IsNone(hget(LastGet(h).channel_name, LastGet(h).ref))
         /\ ~_apply_filters(Self(h), hget(LastGet(h).channel_name, LastGet(h).ref), "").passes)
        => /\ Len(ReplyFrames(h)) = 1
           /\ ReplyFrames(h)[1].source = LastGet(h).channel_name \o " " \o LastGet(h).ref
           /\ IsNone(ReplyFrames(h)[1].content)

\* ------------------------------------------------------------------ C10

\* The line taken this step is a GET or a PGET whose arguments fit the
\* handler and whose channel channel_is_allowed rejects.
TakesRejectedGet(h) ==
    /\ TakesLine(h)
    /\ TakenParsed(h).exc = "none"
    /\ \/ /\ TakenParsed(h).command = "GET"
          /\ ~BindError(GetParams, 1, TakenParsed(h).args, TakenParsed(h).kwargs)
          /\ ~channel_is_allowed(Bind(GetParams, TakenParsed(h).args,
                                      TakenParsed(h).kwargs).channel_name)
       \/ /\ TakenParsed(h).command = "PGET"
          /\ ~BindError(PgetParams, 1, TakenParsed(h).args, TakenParsed(h).kwargs)
          /\ ~channel_is_allowed(Bind(PgetParams, TakenParsed(h).args,
                                      TakenParsed(h).kwargs).channel_name)

TakesOneArg(h, command) ==
    /\ TakesLine(h)
    /\ TakenParsed(h).exc = "none"
    /\ TakenParsed(h).command = command
    /\ Len(TakenParsed(h).args) = 1
    /\ DOMAIN TakenParsed(h).kwargs = {}

\* Every subscribed channel is one channel_is_allowed accepts.
C11_SubscribedAreAllowed ==
    \A h \in Conns : \A c \in subscriptions[h] : channel_is_allowed(c)

\* Taking SUB c adds c when channel_is_allowed accepts it and is a no-op when
\* it does not.
C11_SubAddsIffAllowed ==
    \A h \in Conns :
        TakesOneArg(h, "SUB") =>
            IF channel_is_allowed(TakenParsed(h).args[1])
            THEN subscriptions'[h] = subscriptions[h] \cup {TakenParsed(h).args[1]}
            ELSE NoOpStep(h)

\* A connection's subscriptions change only in a step in which its own
\* session takes a SUB or DEL line of its own client.
C11_OnlyOwnSubDel ==
    \A h \in Conns :
        subscriptions'[h] # subscriptions[h] =>
            /\ TakesLine(h)
            /\ TakenParsed(h).command \in {"SUB", "DEL"}
            /\ \A g \in Conns \ {h} : subscriptions'[g] = subscriptions[g]

C12_DelRemovesOnlyThat ==
    \A h \in Conns :
        TakesOneArg(h, "DEL") =>
            /\ subscriptions'[h] = subscriptions[h] \ {TakenParsed(h).args[1]}
            /\ TakenParsed(h).args[1] \notin subscriptions[h] => NoOpStep(h)
            /\ sent'[h] = sent[h]
            /\ failure'[h] = failure[h]
            /\ filters'[h] = filters[h]
            /\ listen_task'[h] = "check"

\* While DEL c is the last line taken, c is not subscribed: after DEL c, DEL c
\* and after SUB c, DEL c alike.
C12_AfterDelNotSubscribed ==
    \A h \in Conns :
        (/\ LastIsLine(h)
         /\ LastParsed(h).exc = "none"
         /\ LastParsed(h).command = "DEL"
         /\ Len(LastParsed(h).args) = 1
         /\ DOMAIN LastParsed(h).kwargs = {})
        => LastParsed(h).args[1] \notin subscriptions[h]

\* C12: DEL channel removes the channel from the subscriptions and leaves
\* every other subscription; DEL of a channel that is not subscribed changes
\* nothing, sends nothing and raises nothing; so DEL is idempotent and SUB c
\* followed by DEL c leaves the set without c.
C12_DelRemoves ==
    /\ []C12_AfterDelNotSubscribed
    /\ [][C12_DelRemovesOnlyThat]_vars

\* Connection 1 took SUB egg and then DEL alpha, which was not subscribed: egg
\* is still subscribed and the session is in its loop.
C12_Witness ==
    /\ Len(handled[1]) = 2
    /\ handled[1][1].content = Line2(<<"SUB">>, <<"egg">>)
    /\ handled[1][2].content = Line2(<<"DEL">>, <<"alpha">>)
    /\ subscriptions[1] = {"egg"}
    /\ failure[1] = "none"
    /\ listen_task[1] = "check"

\* Connection 1 took SUB alpha and then DEL alpha: nothing is subscribed.
C12_WitnessRestored ==
    /\ Len(handled[1]) = 2
    /\ handled[1][1].content = Line2(<<"SUB">>, <<"alpha">>)
    /\ handled[1][2].content = Line2(<<"DEL">>, <<"alpha">>)
    /\ subscriptions[1] = {}

\* ------------------------------------------------------------------ C13

\* The frame a PING is answered with.
PongFrame == Frame("websocket", Pong, None, 0)

\* The last item connection h took is the line PING.
LastIsPing(h) == LastIsLine(h) /\ Last(handled[h]).content = Line1(<<"PING">>)

\* Once a PING is handled, what was sent for it is exactly one PONG frame.
C13_OnePong ==
    \A h \in Conns :
        LastIsPing(h) /\ Completed(h) => ReplyFrames(h) = <<PongFrame>>

\* The step that writes for a PING being handled writes its PONG, to its
\* sender and to no other connection.
C13_PongToSenderOnly ==
    \A h \in Conns :
        LastIsPing(h) /\ listen_task[h] = "reply" /\ sent'[h] # sent[h] =>
            /\ sent' = [sent EXCEPT ![h] = Append(@, PongFrame)]
            /\ SameHandlerState(h)

\* Taking a PING changes no subscription set and no filter of any connection
\* and writes to no transport.
C13_PingKeepsState ==
    \A h \in Conns :
        TakesLine(h) /\ Head(queue[h]).content = Line1(<<"PING">>) =>
            /\ UNCHANGED <<subscriptions, filters, bbox, projection_out, sent,
                           redis_calls>>
            /\ listen_task'[h] = "reply"

\* C13: PING produces exactly one outbound frame, with content "PONG", on the
\* sender's own transport only, and leaves the sender's subscriptions and
\* filters unchanged.
C13_PingPong ==
    /\ []C13_OnePong
    /\ [][C13_PongToSenderOnly /\ C13_PingKeepsState]_vars

\* Connection 1, subscribed to alpha, was answered its PING while connection
\* 2 is open and has received nothing but its status frame.
C13_Witness ==
    /\ LastIsPing(1)
    /\ Completed(1)
    /\ subscriptions[1] = {"alpha"}
    /\ sent[1] = <<Frame("websocket", StatusOpen, None, 0), PongFrame>>
    /\ 2 \in handlers
    /\ sent[2] = <<Frame("websocket", StatusOpen, None, 0)>>

\* ------------------------------------------------------------------ C14

\* str.upper() of the command tokens the clients send.
upper(command) ==
    CASE command = "ping" -> "PING"
      [] command = "Sub" -> "SUB"
      [] OTHER -> command

\* The line with its command in upper case (the command is the first atom of
\* every line the clients send).
UpperForm(line) == <<upper(Head(line))>> \o Tail(line)

\* C14: the command name is matched case-insensitively: taking a line whose
\* first token is an allowed command in lower or mixed case (ping, Sub alpha)
\* has the effect of taking its upper-case form: the same subscriptions and
\* filters afterwards and the same frames to send.
C14_CaseInsensitiveCommand ==
    [][\A h \in Conns :
          (/\ TakesLine(h)
           /\ TakenParsed(h).exc = "none"
           /\ upper(TakenParsed(h).command) \in allowed_commands)
          => LET r == _handle_remote_message(Self(h), UpperForm(Head(queue[h]).content)) IN
             /\ subscriptions'[h] = r.self.subscriptions
             /\ filters'[h] = r.self.filters
             /\ r.out # <<>> => pending'[h] = r.out /\ listen_task'[h] = "reply"]_vars

\* ------------------------------------------------------------------ C15

\* A token without "=".
IsPositional(token) == \A i \in 1..Len(token) : token[i] # "="

\* A token with "=".
IsNamed(token) == ~IsPositional(token)

\* The atoms of a named token before its first "=" and those after it.
NameAtoms(token) ==
    CHOOSE n \in {SubSeq(token, 1, k) : k \in 0..Len(token)} :
        /\ IsPositional(n)
        /\ Len(n) < Len(token)
        /\ token[Len(n) + 1] = "="
ValueAtoms(token) == SubSeq(token, Len(NameAtoms(token)) + 2, Len(token))

\* The words of a line: the maximal runs of atoms other than " ".
Words(line) ==
    LET starts == {i \in 1..Len(line) : line[i] # " " /\ (i = 1 \/ line[i - 1] = " ")}
        end(i) == CHOOSE j \in i..Len(line) :
                      /\ \A k \in i..j : line[k] # " "
                      /\ (j = Len(line) \/ line[j + 1] = " ")
        nth(n) == CHOOSE i \in starts : Cardinality({s \in starts : s < i}) = n - 1
    IN  [n \in 1..Cardinality(starts) |-> SubSeq(line, nth(n), end(nth(n)))]

\* What parsing a line of at least one word is to give: the first word is
\* the command, the words without "=" are the positional arguments in their
\* order, every word with "=" names its part before the first "=" and gives
\* it the rest (the last such word wins).
ParsedAsDescribed(line, p) ==
    LET w == Words(line)
        rest == SubSeq(w, 2, Len(w))
        pos == SelectSeq(rest, IsPositional)
        named == SelectSeq(rest, IsNamed)
    IN  /\ p.exc = "none"
        /\ p.command = Join(w[1])
        /\ p.args = [i \in 1..Len(pos) |-> Join(pos[i])]
        /\ DOMAIN p.kwargs = {Join(NameAtoms(named[i])) : i \in 1..Len(named)}
        /\ \A i \in 1..Len(named) :
              (\A j \in (i + 1)..Len(named) : NameAtoms(named[j]) # NameAtoms(named[i]))
              => p.kwargs[Join(NameAtoms(named[i]))] = Join(ValueAtoms(named[i]))

\* Every line taken was parsed as described; a=b=c names a with value b=c.
C15_ParsedAsDescribed ==
    \A h \in Conns :
        LastIsLine(h) =>
            /\ ParsedAsDescribed(Last(handled[h]).content, LastParsed(h))
            /\ Last(handled[h]).content
                  = Line4(<<"GET">>, <<"egg">>, <<"ref">>, <<"client_ref", "=", "b", "=", "c">>)
               => /\ LastParsed(h).args = <<"egg", "ref">>
                  /\ LastParsed(h).kwargs = [client_ref |-> "b=c"]

\* The GET lines that name client_ref, and the line that gives it by position.
NamedClientRefLines ==
    { Line4(<<"GET">>, <<"egg">>, <<"ref">>, <<"client_ref", "=", "cref">>),
      Line4(<<"GET">>, <<"client_ref", "=", "cref">>, <<"egg">>, <<"ref">>) }
PositionalClientRefLine == Line4(<<"GET">>, <<"egg">>, <<"ref">>, <<"cref">>)

\* A handled GET egg ref with client_ref named was answered as GET egg ref
\* cref is: one frame of the stored value with client_reference cref.
C15_NamedAsPositional ==
    \A h \in Conns :
        (/\ LastIsLine(h)
         /\ Completed(h)
         /\ Last(handled[h]).content \in NamedClientRefLines \cup {PositionalClientRefLine})
        => /\ ReplyFrames(h) = _handle_remote_message(Self(h), PositionalClientRefLine).out
           /\ ReplyFrames(h) = <<Frame("egg ref", loads(hget("egg", "ref").s), PyStr("cref"), 0)>>

FailedWhileOpen(h) ==
    /\ listen_task[h] = "failed"
    /\ failure[h] # "none"
    /\ websocket[h] = "open"

\* The handler of the last line taken met a payload of the store that does
\* not decode: _apply_filters raised InternalMessageHandlerError in it.
LastMetUndecodable(h) ==
    /\ LastIsLine(h)
    /\ LastParsed(h).exc = "none"
    /\ LastParsed(h).command \in {"GET", "PGET"}
    /\ CallHandler(Self(h), lower(LastParsed(h).command), LastParsed(h).args,
                   LastParsed(h).kwargs).exc = "InternalMessageHandlerError"

\* The fan-out half: a message of the router that does not decode ends the
\* session with InternalMessageHandlerError.
C16_FanoutUndecodableIsInternal ==
    \A h \in Conns :
        (/\ handled[h] # <<>>
         /\ Last(handled[h]).source # "websocket"
         /\ JSONDecodeError(Last(handled[h]).content.s))
        => listen_task[h] = "failed" /\ failure[h] = "InternalMessageHandlerError"

\* C16: a payload of the backend that fails to decode is reported as
\* InternalMessageHandlerError, not as the RemoteMessageHandlerError of
\* malformed client commands, and ends the connection; here for a payload
\* fetched from the store while handling GET or PGET.
C16_StoreUndecodableIsInternal ==
    \A h \in Conns :
        LastMetUndecodable(h) /\ FailedWhileOpen(h)
        => failure[h] = "InternalMessageHandlerError"

\* ------------------------------------------------------------------ C17

\* The key is in the pipeline.
HasFilter(h, name) == \E i \in 1..Len(filters[h]) : filters[h][i] = name

\* The step takes a line that parses to the command with positional
\* arguments only.
TakesCommand(h, command) ==
    /\ TakesLine(h)
    /\ TakenParsed(h).exc = "none"
    /\ TakenParsed(h).command = command
    /\ DOMAIN TakenParsed(h).kwargs = {}

\* The box four numeric arguments name.
BoxOf(args) == BoundingBox(float(args[1]), float(args[2]), float(args[3]), float(args[4]))

\* The item taken is a BBOX line with four numeric arguments.
IsBoxLine(item) ==
    /\ item.source = "websocket"
    /\ _parse_remote_message(item.content).exc = "none"
    /\ _parse_remote_message(item.content).command = "BBOX"
    /\ DOMAIN _parse_remote_message(item.content).kwargs = {}
    /\ Len(_parse_remote_message(item.content).args) = 4
    /\ \A i \in 1..4 : _parse_remote_message(item.content).args[i] \in FloatTokens

\* The places of the four-argument BBOX lines connection h took.
BoxLines(h) == {i \in 1..Len(handled[h]) : IsBoxLine(handled[h][i])}

\* The box of the last of them.
LastBox(h) ==
    BoxOf(_parse_remote_message(
              handled[h][CHOOSE i \in BoxLines(h) : \A j \in BoxLines(h) : j <= i].content).args)

\* The documents of a hash of the store, in the order of hvals, and the
\* contents of frames.
StoreDocs(channel_name) ==
    [i \in 1..Len(store[channel_name]) |-> loads(store[channel_name][i][2])]
Contents(frames) == [i \in 1..Len(frames) |-> frames[i].content]

\* Equality of documents, by kind first (documents of different kinds are
\* different) and of sequences of documents.
RECURSIVE SameDoc(_, _)
SameDoc(a, b) ==
    IF _is_collection(a) \/ _is_collection(b)
    THEN /\ _is_collection(a)
         /\ _is_collection(b)
         /\ Len(a.features) = Len(b.features)
         /\ \A i \in 1..Len(a.features) : SameDoc(a.features[i], b.features[i])
    ELSE IF ~IsNone(_feature_type(a)) \/ ~IsNone(_feature_type(b))
    THEN /\ _feature_type(a) = _feature_type(b)
         /\ a.geometry.coordinates = b.geometry.coordinates
    ELSE a = b
SameDocs(s, t) == Len(s) = Len(t) /\ \A i \in 1..Len(s) : SameDoc(s[i], t[i])

\* The last line taken is GET egg and its handling is over.
AnsweredGetEgg(h) ==
    /\ LastIsLine(h)
    /\ Last(handled[h]).content = Line2(<<"GET">>, <<"egg">>)
    /\ Completed(h)

\* A BBOX step: four numeric arguments set the box and leave one "bbox"
\* entry, the other entries as they were; no argument removes the entry and
\* nothing else; any other number of arguments changes nothing.  No BBOX step
\* sends or subscribes anything.
C17_BboxStep ==
    \A h \in Conns :
        TakesCommand(h, "BBOX") =>
            LET args == TakenParsed(h).args IN
            /\ (Len(args) = 4 /\ \A i \in 1..4 : args[i] \in FloatTokens) =>
                  /\ bbox'[h] = BoxOf(args)
                  /\ Cardinality({i \in 1..Len(filters'[h]) : filters'[h][i] = "bbox"}) = 1
                  /\ FiltersRemove(filters'[h], "bbox") = FiltersRemove(filters[h], "bbox")
                  /\ listen_task'[h] = "check"
            /\ Len(args) = 0 =>
                  /\ filters'[h] = FiltersRemove(filters[h], "bbox")
                  /\ bbox'[h] = bbox[h]
                  /\ listen_task'[h] = "check"
            /\ Len(args) \notin {0, 4} => NoOpStep(h)
            /\ subscriptions'[h] = subscriptions[h]
            /\ projection_out'[h] = projection_out[h]
            /\ sent'[h] = sent[h]

\* Only a BBOX line changes the box or the "bbox" entry.
C17_OnlyBbox ==
    \A h \in Conns :
        (bbox'[h] # bbox[h] \/ HasFilter(h, "bbox")' # HasFilter(h, "bbox"))
        => TakesCommand(h, "BBOX")

\* At most one "bbox" entry; while it is installed the box is that of the
\* last four-argument BBOX, and it is the box a GET is filtered by; while it
\* is not installed a GET is answered with every document of the hash.
C17_BoxOfLastBbox ==
    \A h \in Conns :
        /\ Cardinality({i \in 1..Len(filters[h]) : filters[h][i] = "bbox"}) <= 1
        /\ HasFilter(h, "bbox") => BoxLines(h) # {} /\ bbox[h] = LastBox(h)
        /\ (AnsweredGetEgg(h) /\ filters[h] = <<"bbox">>) =>
              SameDocs(Contents(ReplyFrames(h)),
                       SelectSeq(StoreDocs("egg"), LAMBDA d : _bbox_filter(LastBox(h), d, None)))
        /\ (AnsweredGetEgg(h) /\ ~HasFilter(h, "bbox")) =>
              Len(ReplyFrames(h)) = Len(store["egg"])

\* C17: BBOX with exactly 4 numeric args sets the BoundingBox to them and
\* installs the "bbox" filter, replacing any earlier box; BBOX with 0 args
\* removes the filter if present, after which documents of any geometry
\* pass; BBOX with any other number of args changes neither box nor
\* pipeline.  After any sequence of BBOX commands the pipeline holds at most
\* one "bbox" entry and it uses the box of the last 4-arg BBOX.
C17_BboxCommand ==
    /\ []C17_BoxOfLastBbox
    /\ [][C17_BboxStep /\ C17_OnlyBbox]_vars

\* BBOX 1 2 3 4, then BBOX, then GET egg: the entry is gone, the box is
\* still set, and every document of egg was sent.
C17_Witness ==
    /\ Len(handled[1]) = 3
    /\ handled[1][1].content = Line5(<<"BBOX">>, <<"1">>, <<"2">>, <<"3">>, <<"4">>)
    /\ handled[1][2].content = Line1(<<"BBOX">>)
    /\ AnsweredGetEgg(1)
    /\ filters[1] = <<>>
    /\ bbox[1] = BoundingBox(10, 20, 30, 40)
    /\ SameDocs(Contents(ReplyFrames(1)), StoreDocs("egg"))

\* BBOX 1 2 3 4, then BBOX 3 4 1 2, then GET egg: the second box is used.
C17_WitnessReplaced ==
    /\ Len(handled[1]) = 3
    /\ handled[1][1].content = Line5(<<"BBOX">>, <<"1">>, <<"2">>, <<"3">>, <<"4">>)
    /\ handled[1][2].content = Line5(<<"BBOX">>, <<"3">>, <<"4">>, <<"1">>, <<"2">>)
    /\ AnsweredGetEgg(1)
    /\ filters[1] = <<"bbox">>
    /\ bbox[1] = BoundingBox(30, 40, 10, 20)
    /\ Len(ReplyFrames(1)) < Len(store["egg"])

\* ------------------------------------------------------------------ C18

\* A Feature whose geometry is a Point.
IsPointDoc(d) == DictGetIs(d, "type", "Feature") /\ d.geometry.type = "Point"

\* The document was sent in answer to the last line.
InReply(h, d) == \E i \in 1..Len(ReplyFrames(h)) : SameDoc(ReplyFrames(h)[i].content, d)

\* With only the bbox filter installed, GET egg is answered with a Point
\* exactly when it lies strictly inside the box; a box with left >= right or
\* bottom >= top lets no Point through.
C18_PointStrictlyInside ==
    \A h \in Conns :
        (AnsweredGetEgg(h) /\ filters[h] = <<"bbox">>) =>
            \A i \in 1..Len(StoreDocs("egg")) :
                LET d == StoreDocs("egg")[i] IN
                IsPointDoc(d) =>
                    /\ InReply(h, d) <=>
                          /\ bbox[h].left < d.geometry.coordinates[1]
                          /\ d.geometry.coordinates[1] < bbox[h].right
                          /\ bbox[h].bottom < d.geometry.coordinates[2]
                          /\ d.geometry.coordinates[2] < bbox[h].top
                    /\ (bbox[h].left >= bbox[h].right \/ bbox[h].bottom >= bbox[h].top)
                       => ~InReply(h, d)

\* A box is taken as given, whatever the order of its sides: the step raises
\* nothing and installs it.
C18_AnyBoxAccepted ==
    \A h \in Conns :
        (/\ TakesCommand(h, "BBOX")
         /\ Len(TakenParsed(h).args) = 4
         /\ \A i \in 1..4 : TakenParsed(h).args[i] \in FloatTokens)
        => /\ bbox'[h] = BoxOf(TakenParsed(h).args)
           /\ HasFilter(h, "bbox")'
           /\ failure'[h] = failure[h]
           /\ listen_task'[h] = "check"

\* C18: with a bbox filter installed a Point feature passes iff left < x <
\* right and bottom < y < top, strictly: a point on an edge or a corner of the
\* box fails, and a box with left >= right or bottom >= top is accepted as
\* given and rejects every point.
C18_PointInBboxStrict ==
    /\ []C18_PointStrictlyInside
    /\ [][C18_AnyBoxAccepted]_vars

\* BBOX 1 2 3 4, then GET egg: the point (2.1, 3.5) was sent; the points on
\* the left, right, bottom and top edge and on the corner (3, 4) were not.
C18_Witness ==
    /\ Len(handled[1]) = 2
    /\ handled[1][1].content = Line5(<<"BBOX">>, <<"1">>, <<"2">>, <<"3">>, <<"4">>)
    /\ AnsweredGetEgg(1)
    /\ bbox[1] = BoundingBox(10, 20, 30, 40)
    /\ InReply(1, Feature("Point", <<21, 35>>))
    /\ ~InReply(1, Feature("Point", <<10, 35>>))
    /\ ~InReply(1, Feature("Point", <<30, 35>>))
    /\ ~InReply(1, Feature("Point", <<21, 20>>))
    /\ ~InReply(1, Feature("Point", <<21, 40>>))
    /\ ~InReply(1, Feature("Point", <<30, 40>>))

\* BBOX 3 4 1 2, then GET egg: the box is installed as given and no Point
\* was sent.
C18_WitnessInverted ==
    /\ Len(handled[1]) = 2
    /\ handled[1][1].content = Line5(<<"BBOX">>, <<"3">>, <<"4">>, <<"1">>, <<"2">>)
    /\ AnsweredGetEgg(1)
    /\ bbox[1] = BoundingBox(30, 40, 10, 20)
    /\ \A i \in 1..Len(StoreDocs("egg")) :
          IsPointDoc(StoreDocs("egg")[i]) => ~InReply(1, StoreDocs("egg")[i])

\* ------------------------------------------------------------------ C19

\* The point test, on a pair of coordinates.
Inside(point, box) ==
    /\ box.left < point[1] /\ point[1] < box.right
    /\ box.bottom < point[2] /\ point[2] < box.top

\* The vertices of a line string and of a polygon's rings.
LineVertices(coords) == {coords[i] : i \in 1..Len(coords)}
RingVertices(coords) == UNION {LineVertices(coords[r]) : r \in 1..Len(coords)}

\* The rule of a base type; a type that is none of the three passes.
BaseRule(type_, coords, box) ==
    CASE type_ = "Point" -> Inside(coords, box)
      [] type_ = "LineString" -> \E v \in LineVertices(coords) : Inside(v, box)
      [] type_ = "Polygon" -> \E v \in RingVertices(coords) : Inside(v, box)
      [] OTHER -> TRUE

\* The rule of a feature: a type Multi<Type> passes iff one of the
\* geometries it holds passes the rule of <Type>.
FeatureRule(feature, box) ==
    LET type_ == feature.geometry.type
        coords == feature.geometry.coordinates
    IN  IF StartsWithMulti(type_)
        THEN \E i \in 1..Len(coords) : BaseRule(StripMulti(type_), coords[i], box)
        ELSE BaseRule(type_, coords, box)

\* The rule of a document: a collection passes iff one of its members does,
\* a document that is neither collection nor feature passes.
DocRule(d, box) ==
    IF DictGetIs(d, "type", "FeatureCollection")
    THEN \E i \in 1..Len(d.features) : FeatureRule(d.features[i], box)
    ELSE IF DictGetIs(d, "type", "Feature") THEN FeatureRule(d, box)
    ELSE TRUE

\* C19: the bbox predicate is existential and permissive: a LineString
\* passes iff some vertex passes the point test, a Polygon iff some vertex of
\* some ring does, a Multi<Type> iff some geometry it holds passes the rule of
\* its base type, a FeatureCollection iff some member passes (an empty one
\* fails); a Feature of any other geometry type and a document that is
\* neither Feature nor FeatureCollection pass.  With only the bbox filter
\* installed, GET egg is answered with exactly the documents that rule lets
\* through, in their order.
C19_BboxExistentialPermissive ==
    \A h \in Conns :
        (AnsweredGetEgg(h) /\ filters[h] = <<"bbox">>) =>
            SameDocs(Contents(ReplyFrames(h)),
                     SelectSeq(StoreDocs("egg"), LAMBDA d : DocRule(d, bbox[h])))

\* BBOX 1 2 3 4, then GET egg: sent were the line string, polygon,
\* MultiPoint and MultiPolygon with a vertex inside, the collection with a
\* member inside, the unsupported types that hold something and the document
\* that is no feature; not sent were those with every vertex outside, the
\* empty collection and the empty MultiUnknown.
C19_Witness ==
    /\ Len(handled[1]) = 2
    /\ handled[1][1].content = Line5(<<"BBOX">>, <<"1">>, <<"2">>, <<"3">>, <<"4">>)
    /\ AnsweredGetEgg(1)
    /\ filters[1] = <<"bbox">>
    /\ InReply(1, loads("LineString[[0.1, 3.5], [2.1, 3.4]]"))
    /\ ~InReply(1, loads("LineString[[0.1, 3.5], [5.1, 3.4]]"))
    /\ InReply(1, loads("Polygon[[[0.1, 3.5], [5.1, 3.4]], [[2.1, 3.4]]]"))
    /\ ~InReply(1, loads("Polygon[[[0.1, 3.5], [5.1, 3.4]]]"))
    /\ InReply(1, loads("MultiPoint[[0.1, 3.5], [2.1, 3.4]]"))
    /\ ~InReply(1, loads("MultiPoint[[0.1, 3.5]]"))
    /\ ~InReply(1, loads("MultiLineString[[[0.1, 3.5], [5.1, 3.4]]]"))
    /\ InReply(1, loads("MultiPolygon[[[[0.1, 3.5]]], [[[5.1, 3.4], [2.1, 3.4]]]]"))
    /\ InReply(1, loads("FeatureCollection[Point[0.1, 3.5], Point[2.1, 3.5]]"))
    /\ ~InReply(1, loads("FeatureCollection[Point[0.1, 3.5]]"))
    /\ ~InReply(1, loads("FeatureCollection[]"))
    /\ InReply(1, loads("Unknown[[0.1, 3.5], [2.1, 3.4]]"))
    /\ InReply(1, loads("MultiUnknown[[0.1, 3.5]]"))
    /\ ~InReply(1, loads("MultiUnknown[]"))
    /\ InReply(1, loads("{\"v\": 1}"))

\* ------------------------------------------------------------------ C20

\* The line PROJECTION <default identifier>.
DefaultProjectionLine == Line2(<<"PROJECTION">>, <<default_projection>>)

\* Taking PROJECTION <default> removes the "projection" entry and nothing
\* else; without such an entry it changes nothing at all.
C20_DefaultProjectionStep ==
    \A h \in Conns :
        (TakesLine(h) /\ Head(queue[h]).content = DefaultProjectionLine) =>
            /\ filters'[h] = FiltersRemove(filters[h], "projection")
            /\ ~HasFilter(h, "projection") => NoOpStep(h)
            /\ bbox'[h] = bbox[h]
            /\ subscriptions'[h] = subscriptions[h]
            /\ sent'[h] = sent[h]
            /\ failure'[h] = failure[h]
            /\ listen_task'[h] = "check"

\* Taking it again right after it changes nothing.
C20_RepeatedIsNoOp ==
    \A h \in Conns :
        (/\ TakesLine(h)
         /\ Head(queue[h]).content = DefaultProjectionLine
         /\ LastIsLine(h)
         /\ Last(handled[h]).content = DefaultProjectionLine)
        => NoOpStep(h)

\* While PROJECTION <default> is the last line taken there is no
\* "projection" entry.  Without that entry GET egg is answered with the
\* documents of the hash as they are stored, and a message of the router is
\* forwarded as it was published.
C20_Untransformed ==
    \A h \in Conns :
        /\ (LastIsLine(h) /\ Last(handled[h]).content = DefaultProjectionLine)
           => ~HasFilter(h, "projection")
        /\ (AnsweredGetEgg(h) /\ ~HasFilter(h, "projection"))
           => SameDocs(Contents(ReplyFrames(h)), StoreDocs("egg"))
        /\ (/\ handled[h] # <<>>
            /\ Last(handled[h]).source # "websocket"
            /\ Completed(h)
            /\ ~HasFilter(h, "projection"))
           => SameDocs(Contents(ReplyFrames(h)), <<loads(Last(handled[h]).content.s)>>)

\* C20: PROJECTION with the default identifier removes the "projection"
\* filter if one is installed and is otherwise a no-op, so issuing it any
\* number of times in a row yields the state of issuing it once; afterwards
\* backend documents are delivered with their coordinates untransformed.
C20_DefaultProjectionClears ==
    /\ []C20_Untransformed
    /\ [][C20_DefaultProjectionStep /\ C20_RepeatedIsNoOp]_vars

\* SUB egg, PROJECTION epsg:3857, PROJECTION epsg:4326, then a line string
\* published on egg: the entry is gone, the projection object is still set,
\* and the line string was forwarded with the coordinates it was published
\* with.
C20_Witness ==
    /\ Len(handled[1]) = 4
    /\ \A i \in 1..3 : handled[1][i].source = "websocket"
    /\ handled[1][1].content = Line2(<<"SUB">>, <<"egg">>)
    /\ handled[1][2].content = Line2(<<"PROJECTION">>, <<"epsg:3857">>)
    /\ handled[1][3].content = DefaultProjectionLine
    /\ handled[1][4].source = "egg"
    /\ handled[1][4].content = PyStr("LineString[[0.1, 3.5], [2.1, 3.4]]")
    /\ Completed(1)
    /\ filters[1] = <<>>
    /\ projection_out[1] = PyStr("epsg:3857")
    /\ Len(ReplyFrames(1)) = 1
    /\ ReplyFrames(1)[1].content.geometry.coordinates = << <<1, 35>>, <<21, 34>> >>

\* PROJECTION epsg:3857, PROJECTION epsg:4326, then GET egg: answered with the
\* documents as they are stored.
C20_WitnessGet ==
    /\ Len(handled[1]) = 3
    /\ handled[1][1].content = Line2(<<"PROJECTION">>, <<"epsg:3857">>)
    /\ handled[1][2].content = DefaultProjectionLine
    /\ AnsweredGetEgg(1)
    /\ filters[1] = <<>>
    /\ SameDocs(Contents(ReplyFrames(1)), StoreDocs("egg"))

\* With the entry installed a forwarded point does carry other coordinates.
C20_WitnessTransformed ==
    /\ handled[1] # <<>>
    /\ Last(handled[1]).source = "egg"
    /\ Last(handled[1]).content = PyStr("Point[2.1, 3.5]")
    /\ Completed(1)
    /\ filters[1] = <<"projection">>
    /\ Len(ReplyFrames(1)) = 1
    /\ ReplyFrames(1)[1].content.geometry.coordinates # <<21, 35>>

\* ------------------------------------------------------------------ C21

\* The item taken is a PROJECTION line with one identifier that resolves and
\* is not the default.
IsInstallLine(item) ==
    /\ item.source = "websocket"
    /\ _parse_remote_message(item.content).exc = "none"
    /\ _parse_remote_message(item.content).command = "PROJECTION"
    /\ DOMAIN _parse_remote_message(item.content).kwargs = {}
    /\ Len(_parse_remote_message(item.content).args) = 1
    /\ _parse_remote_message(item.content).args[1] \in Resolvable \ {default_projection}

\* The places of such lines among those connection h took, and the
\* identifier of the last of them.
InstallLines(h) == {i \in 1..Len(handled[h]) : IsInstallLine(handled[h][i])}
LastInstalled(h) ==
    _parse_remote_message(
        handled[h][CHOOSE i \in InstallLines(h) : \A j \in InstallLines(h) : j <= i].content).args[1]

\* A PROJECTION step: one resolvable identifier other than the default sets
\* the transformer and leaves one "projection" entry, the other entries as
\* they were; an identifier that does not resolve, and any other number of
\* arguments, change nothing and leave the session in its loop.
C21_ProjectionStep ==
    \A h \in Conns :
        TakesCommand(h, "PROJECTION") =>
            LET args == TakenParsed(h).args IN
            /\ (Len(args) = 1 /\ args[1] \in Resolvable \ {default_projection}) =>
                  /\ projection_out'[h] = PyStr(args[1])
                  /\ Cardinality({i \in 1..Len(filters'[h]) : filters'[h][i] = "projection"}) = 1
                  /\ FiltersRemove(filters'[h], "projection")
                        = FiltersRemove(filters[h], "projection")
                  /\ bbox'[h] = bbox[h]
                  /\ failure'[h] = failure[h]
                  /\ listen_task'[h] = "check"
            /\ (Len(args) = 1 /\ args[1] \notin Resolvable) => NoOpStep(h)
            /\ Len(args) # 1 => NoOpStep(h)

\* While the "projection" entry is installed the transformer is that of the
\* last PROJECTION that named a resolvable identifier, whatever failed
\* PROJECTION came after it, and it is the one GET egg is answered with.
C21_ProjectionStaysActive ==
    \A h \in Conns :
        /\ HasFilter(h, "projection") =>
              InstallLines(h) # {} /\ projection_out[h] = PyStr(LastInstalled(h))
        /\ (AnsweredGetEgg(h) /\ filters[h] = <<"projection">>) =>
              SameDocs(Contents(ReplyFrames(h)),
                       [i \in 1..Len(StoreDocs("egg")) |->
                           _projection_filter(PyStr(LastInstalled(h)), StoreDocs("egg")[i], None)])

\* C21: PROJECTION with one resolvable non-default identifier installs that
\* transformer and the "projection" filter; PROJECTION with an unresolvable
\* identifier, or with any number of args other than 1, leaves the installed
\* transformer and the pipeline exactly as they were (an active projection
\* stays active) and does not end the connection.
C21_ProjectionCommand ==
    /\ []C21_ProjectionStaysActive
    /\ [][C21_ProjectionStep]_vars

\* PROJECTION epsg:3857, then PROJECTION bogus, then GET egg: the session is
\* in its loop and the point (2.1, 3.5) was sent in epsg:3857.
C21_Witness ==
    /\ Len(handled[1]) = 3
    /\ handled[1][1].content = Line2(<<"PROJECTION">>, <<"epsg:3857">>)
    /\ handled[1][2].content = Line2(<<"PROJECTION">>, <<"bogus">>)
    /\ AnsweredGetEgg(1)
    /\ store = StoreP
    /\ filters[1] = <<"projection">>
    /\ projection_out[1] = PyStr("epsg:3857")
    /\ failure[1] = "none"
    /\ ReplyFrames(1)[1].content.geometry.coordinates
          = transform_projection(projection_in, "epsg:3857", <<21, 35>>)
    /\ ReplyFrames(1)[1].content.geometry.coordinates # <<21, 35>>

\* ------------------------------------------------------------------ C22

\* A feature of the hash egg has a geometry type that is not supported.
HoldsUnsupported ==
    \E i \in 1..Len(StoreDocs("egg")) :
        /\ ~IsNone(_feature_type(StoreDocs("egg")[i]))
        /\ ~SupportedType(_feature_type(StoreDocs("egg")[i]).s)
        /\ ~StartsWithMulti(_feature_type(StoreDocs("egg")[i]).s)

\* The last line taken is BBOX with a number of arguments other than 0 and
\* 4, or PROJECTION with an identifier that does not resolve.
LastIsBadBboxOrProjection(h) ==
    /\ LastIsLine(h)
    /\ LastParsed(h).exc = "none"
    /\ DOMAIN LastParsed(h).kwargs = {}
    /\ \/ LastParsed(h).command = "BBOX" /\ Len(LastParsed(h).args) \notin {0, 4}
       \/ /\ LastParsed(h).command = "PROJECTION"
          /\ Len(LastParsed(h).args) = 1
          /\ LastParsed(h).args[1] \notin Resolvable

\* The last line taken is GET egg or PGET egg with a filter installed, over a
\* hash that holds a feature of an unsupported type.
LastFiltersUnsupported(h) ==
    /\ LastIsLine(h)
    /\ Last(handled[h]).content \in {Line2(<<"GET">>, <<"egg">>), Line2(<<"PGET">>, <<"egg">>)}
    /\ filters[h] # <<>>
    /\ HoldsUnsupported

\* The last line taken is a PGET on an allowed channel whose projection=
\* names an identifier that does not resolve.
LastIsPgetUnresolvable(h) ==
    /\ LastIsLine(h)
    /\ LastParsed(h).exc = "none"
    /\ LastParsed(h).command = "PGET"
    /\ ~BindError(PgetParams, 1, LastParsed(h).args, LastParsed(h).kwargs)
    /\ channel_is_allowed(Bind(PgetParams, LastParsed(h).args, LastParsed(h).kwargs).channel_name)
    /\ "projection" \in DOMAIN LastParsed(h).kwargs
    /\ LastParsed(h).kwargs.projection \notin Resolvable

\* The part that holds: a BBOX of a wrong arity, a PROJECTION that does not
\* resolve and a feature of an unsupported type under the filters do not end
\* the session.
C22_OtherEdgesNotFatal ==
    \A h \in Conns :
        (LastIsBadBboxOrProjection(h) \/ LastFiltersUnsupported(h)) => ~FailedWhileOpen(h)

\* C22: geo-filter edge cases are never fatal to the connection: a document
\* of an unsupported geometry type under the bbox or projection filter, a
\* projection identifier that does not resolve, given to PROJECTION or as
\* projection= of PGET, and a BBOX with a wrong number of args each leave the
\* session open.
C22_GeoEdgesNotFatal ==
    \A h \in Conns :
        (\/ LastIsBadBboxOrProjection(h)
         \/ LastFiltersUnsupported(h)
         \/ LastIsPgetUnresolvable(h))
        => ~FailedWhileOpen(h)

\* ------------------------------------------------------------------ C23

\* The step takes a PGET line whose arguments bind.
TakesPget(h) ==
    /\ TakesLine(h)
    /\ TakenParsed(h).exc = "none"
    /\ TakenParsed(h).command = "PGET"
    /\ ~BindError(PgetParams, 1, TakenParsed(h).args, TakenParsed(h).kwargs)

\* The last line taken is PGET egg, with or without projection=, and its
\* handling is over.
AnsweredPgetEgg(h) ==
    /\ LastIsLine(h)
    /\ LastParsed(h).exc = "none"
    /\ LastParsed(h).command = "PGET"
    /\ LastParsed(h).args = <<"egg">>
    /\ DOMAIN LastParsed(h).kwargs \subseteq {"projection"}
    /\ Completed(h)

\* The one-off output reference of the last line: projection=, or the
\* default when it is left out.
OneOffReference(h) ==
    IF "projection" \in DOMAIN LastParsed(h).kwargs
    THEN LastParsed(h).kwargs.projection
    ELSE default_projection

\* The document in the reference: itself in the default reference.
InReference(d, reference) ==
    IF reference = default_projection THEN d
    ELSE _projection_filter(None, d, PyStr(reference))

\* A PGET step leaves the pipeline, the box, the persistent projection and
\* the subscriptions as they were.
C23_PgetKeepsState ==
    \A h \in Conns : TakesPget(h) => SameHandlerState(h)

\* PGET egg is answered with the stored documents in its one-off reference,
\* whatever persistent projection is installed; a message of the router
\* handled later is forwarded in the persistent projection, the one of the
\* last successful PROJECTION, or untransformed when none is installed.
C23_OneOffReference ==
    \A h \in Conns :
        /\ (AnsweredPgetEgg(h) /\ ~HasFilter(h, "bbox")) =>
              SameDocs(Contents(ReplyFrames(h)),
                       [i \in 1..Len(StoreDocs("egg")) |->
                           InReference(StoreDocs("egg")[i], OneOffReference(h))])
        /\ (/\ handled[h] # <<>>
            /\ Last(handled[h]).source # "websocket"
            /\ Completed(h)
            /\ ~HasFilter(h, "bbox")) =>
              SameDocs(Contents(ReplyFrames(h)),
                       <<InReference(loads(Last(handled[h]).content.s),
                                     IF HasFilter(h, "projection") THEN LastInstalled(h)
                                     ELSE default_projection)>>)

\* C23: PGET transforms its replies with the one-off reference given as
\* projection= (identity when omitted or the default) instead of the
\* persistent projection, whose filter is excluded for that call only: after
\* PGET the pipeline, the box and the persistent projection are what they
\* were, and later backend messages are projected as before.
C23_PgetOneOffProjection ==
    /\ []C23_OneOffReference
    /\ [][C23_PgetKeepsState]_vars

\* SUB egg, PROJECTION epsg:3857, PGET egg projection=epsg:2056, then a point
\* published on egg: the PGET was answered in epsg:2056, the published point
\* forwarded in epsg:3857.
C23_Witness ==
    /\ Len(handled[1]) = 4
    /\ \A i \in 1..3 : handled[1][i].source = "websocket"
    /\ handled[1][1].content = Line2(<<"SUB">>, <<"egg">>)
    /\ handled[1][2].content = Line2(<<"PROJECTION">>, <<"epsg:3857">>)
    /\ handled[1][3].content = Line3(<<"PGET">>, <<"egg">>, <<"projection", "=", "epsg:2056">>)
    /\ handled[1][4].source = "egg"
    /\ Completed(1)
    /\ filters[1] = <<"projection">>
    /\ projection_out[1] = PyStr("epsg:3857")
    /\ Len(sent[1]) = 5
    /\ sent[1][2].content.geometry.coordinates
          = transform_projection(projection_in, "epsg:2056", <<21, 35>>)
    /\ sent[1][5].content.geometry.coordinates
          = transform_projection(projection_in, "epsg:3857", <<21, 35>>)

\* PROJECTION epsg:3857, then PGET egg: answered with the coordinates as
\* stored.
C23_WitnessIdentity ==
    /\ Len(handled[1]) = 2
    /\ handled[1][1].content = Line2(<<"PROJECTION">>, <<"epsg:3857">>)
    /\ AnsweredPgetEgg(1)
    /\ OneOffReference(1) = default_projection
    /\ filters[1] = <<"projection">>
    /\ SameDocs(Contents(ReplyFrames(1)), StoreDocs("egg"))


\* ---------------------------------------------------------------------------
\* PGET and the persistent bbox filter
\* ---------------------------------------------------------------------------

\* The stored documents of egg that the installed box lets through.
BboxPassing(h) ==
    SelectSeq(StoreDocs("egg"), LAMBDA d : DocRule(d, bbox[h]))

\* C24: during PGET the persistent bbox filter still applies: with the bbox
\* filter installed, PGET egg is answered with the stored documents the box
\* lets through, in the one-off reference, and with a single frame of content
\* null when the box rejects every one of them.
C24_PgetHonoursBbox ==
    \A h \in Conns :
        (AnsweredPgetEgg(h) /\ filters[h] = <<"bbox">>) =>
            IF BboxPassing(h) = <<>>
            THEN Contents(ReplyFrames(h)) = <<None>>
            ELSE SameDocs(Contents(ReplyFrames(h)),
                          [i \in 1..Len(BboxPassing(h)) |->
                              InReference(BboxPassing(h)[i], OneOffReference(h))])

\* BBOX 1 2 3 4, then PGET egg: the point (0.1, 3.5), which the box rejects,
\* was sent as frame content.
C24_RejectedValueSent ==
    /\ Len(handled[1]) = 2
    /\ handled[1][1].source = "websocket"
    /\ handled[1][1].content = Line5(<<"BBOX">>, <<"1">>, <<"2">>, <<"3">>, <<"4">>)
    /\ AnsweredPgetEgg(1)
    /\ OneOffReference(1) = default_projection
    /\ bbox[1] = BoundingBox(10, 20, 30, 40)
    /\ ~DocRule(StoreDocs("egg")[2], bbox[1])
    /\ InReply(1, StoreDocs("egg")[2])


\* ---------------------------------------------------------------------------
\* Teardown
\* ---------------------------------------------------------------------------

\* Two sessions, their clients, the router and teardown.  asyncio.wait in
\* websocket_handler returns once the listen task or wait_closed() is done,
\* and the event loop then runs the handler's cleanup: a teardown that stays
\* possible is taken.  Clients, backend, peer and timeout owe nothing.  None
\* of the lines is answered with a frame.
NextLife ==
    \/ \E h \in Conns : Connect(h)
    \/ \E h \in Conns : PeerClose(h)
    \/ \E h \in Conns : \E line \in LifeLines : ReaderRecv(h, line)
    \/ \E h \in Conns : ListenOpen(h)
    \/ \E h \in Conns : LoopCheck(h)
    \/ \E h \in Conns : HandleRemote(h)
    \/ \E h \in Conns : HandleBackend(h)
    \/ \E h \in Conns : SendForward(h)
    \/ \E text \in BackendTexts : Publish("alpha", text)
    \/ \E h \in Conns : Timeout(h)
    \/ \E h \in Conns : Teardown(h)

SpecLife == Init /\ [][NextLife]_vars /\ \A h \in Conns : WF_vars(Teardown(h))

\* asyncio.wait has something to return for: the transport of a registered
\* session is closed, or its listen task ended with an error or ran out of
\* time.
TeardownTrigger(h) ==
    /\ h \in handlers
    /\ \/ websocket[h] = "closed"
       \/ listen_task[h] \in {"failed", "timeout", "returned"}

\* The session is over: transport closed, out of the registry, the reader
\* task and the listen task have ended.
TornDown(h) ==
    /\ websocket[h] = "closed"
    /\ h \notin handlers
    /\ consumer_task[h] \in {"done", "cancelled"}
    /\ listen_task[h] \in {"failed", "timeout", "returned", "cancelled"}

\* A session leaves the registry torn down, stays torn down, and nothing is
\* put on the queue of a session that is not in the registry.
C25_TeardownStep ==
    \A h \in Conns :
        /\ (h \in handlers /\ h \notin handlers') => TornDown(h)'
        /\ TornDown(h) => TornDown(h)'
        /\ h \notin handlers' => queue'[h] = queue[h]

\* C25: after a teardown trigger (peer close, a fatal error of a handler,
\* the session lifetime running out) the session eventually is torn down:
\* transport closed, out of the registry, reader and listen task ended; from
\* the moment it leaves the registry the router puts nothing on its queue.
C25_TeardownCompletes ==
    /\ \A h \in Conns : TeardownTrigger(h) ~> TornDown(h)
    /\ [][C25_TeardownStep]_vars

\* A bare SUB made the command handler raise; the session was torn down, and
\* a message published afterwards on the channel it had subscribed to was
\* not put on its queue.
C25_Witness ==
    /\ TornDown(1)
    /\ failure[1] = "RemoteMessageHandlerError"
    /\ "alpha" \in subscriptions[1]
    /\ npub = 1
    /\ router_channel = "alpha"
    /\ queue[1] = <<>>
    /\ \A i \in 1..Len(handled[1]) : handled[1][i].source = "websocket"

\* Torn down after the peer closed the transport.
C25_WitnessPeer ==
    TornDown(1) /\ consumer_task[1] = "done" /\ listen_task[1] = "cancelled"

\* Torn down after the session lifetime ran out.
C25_WitnessTimeout ==
    TornDown(1) /\ consumer_task[1] = "cancelled" /\ listen_task[1] = "timeout"


\* ---------------------------------------------------------------------------
\* handler.close()
\* ---------------------------------------------------------------------------

\* A task as close() sees it: running, ended (done or cancelled: awaiting it
\* returns or raises CancelledError) or failed with an exception.
Task(state, exc) == [state |-> state, exc |-> exc]

\* close: the loop over self.tasks.values().  cancel() ends a running task,
\* and awaiting a task that failed raises its exception out of the loop.
RECURSIVE CloseTasks(_)
CloseTasks(tasks) ==
    IF tasks = <<>> THEN [tasks |-> <<>>, exc |-> "none"]
    ELSE IF Head(tasks).state = "failed"
    THEN [tasks |-> tasks, exc |-> Head(tasks).exc]
    ELSE LET r == CloseTasks(Tail(tasks))
         IN  [tasks |-> <<Task("ended", "none")>> \o r.tasks, exc |-> r.exc]

\* close: the transport is closed if it is open (closes counts the calls of
\* websocket.close()), then the tasks are cancelled and awaited.
close(self) ==
    LET r == CloseTasks(self.tasks)
    IN  [websocket |-> IF self.websocket = "open" THEN "closed" ELSE self.websocket,
         closes |-> IF self.websocket = "open" THEN 1 ELSE 0,
         tasks |-> r.tasks,
         exc |-> r.exc]

\* The last _queue_reader task failed: the listen task ended with the
\* exception of a message it handled.
QueueReaderFailed(h) == listen_task[h] = "failed" /\ handled[h] # <<>>

\* self.tasks of h, in the order of insertion: consumer_task, then the last
\* queue_reader task if listen created one.
HandlerTasks(h) ==
    <<Task(IF consumer_task[h] = "running" THEN "running" ELSE "ended", "none")>>
    \o (IF QueueReaderFailed(h) THEN <<Task("failed", failure[h])>>
        ELSE IF listen_task[h] \in {"wait", "reply", "forward"} THEN <<Task("running", "none")>>
        ELSE IF handled[h] # <<>> THEN <<Task("ended", "none")>>
        ELSE <<>>)

\* What close() works on.
Closing(h) == [websocket |-> websocket[h], tasks |-> HandlerTasks(h)]

\* A second close() changes nothing, closes nothing and raises nothing.
SecondCloseIsNoOp(h) ==
    /\ close(Closing(h)).exc = "none"
    /\ close(Closing(h)).closes = 0
    /\ close(Closing(h)).websocket = websocket[h]
    /\ close(Closing(h)).tasks = HandlerTasks(h)

\* The teardown step leaves the transport and the reader task as close()
\* leaves them.
C26_TeardownIsClose ==
    \A h \in Conns :
        (h \in handlers /\ h \notin handlers') =>
            /\ websocket'[h] = close(Closing(h)).websocket
            /\ HandlerTasks(h)'[1] = close(Closing(h)).tasks[1]

\* After the teardown of a session whose last _queue_reader did not fail, a
\* second close() is a no-op.
C26_IdempotentUnlessFailed ==
    \A h \in Conns : (TornDown(h) /\ ~QueueReaderFailed(h)) => SecondCloseIsNoOp(h)

\* C26: teardown is idempotent whatever triggered it: a second close() after
\* the session was torn down changes no state, closes nothing twice and
\* raises no error, also when the session ended because a handler failed.
C26_CloseIdempotent ==
    \A h \in Conns : TornDown(h) => SecondCloseIsNoOp(h)

\* Torn down after a bare SUB made the command handler raise: close() raises
\* the exception of the failed task.
C26_CloseRaises ==
    /\ TornDown(1)
    /\ QueueReaderFailed(1)
    /\ failure[1] = "RemoteMessageHandlerError"
    /\ close(Closing(1)).exc = "RemoteMessageHandlerError"

\* A second close() that is a no-op: after peer close, after timeout.
C26_NoOpReached ==
    /\ TornDown(1) /\ listen_task[1] = "timeout" /\ handled[1] # <<>>
    /\ TornDown(2) /\ listen_task[2] = "cancelled"
    /\ SecondCloseIsNoOp(1) /\ SecondCloseIsNoOp(2)

\* What holds of close(): the teardown step is a close(), and a second one is
\* a no-op unless the last _queue_reader failed.
C26_HoldsElsewhere ==
    /\ []C26_IdempotentUnlessFailed
    /\ [][C26_TeardownIsClose]_vars


\* ---------------------------------------------------------------------------
\* Ordering within a connection
\* ---------------------------------------------------------------------------

\* One session, its client's lines and up to MaxFifoPub messages of the
\* backend on alpha.
NextFifo ==
    \/ Connect(1)
    \/ PeerClose(1)
    \/ \E line \in FifoLines : ReaderRecv(1, line)
    \/ Session(1)
    \/ \E text \in FifoTexts : PublishWithin("alpha", text, MaxFifoPub)
    \/ Timeout(1)
    \/ Teardown(1)

SpecFifo == Init /\ [][NextFifo]_vars

\* Everything put on h's queue so far, in the order it was put: what was
\* taken, then what waits.
Log(h) == handled[h] \o queue[h]

\* The same queue item: a line of the client, or a tagged backend message.
SameItem(a, b) ==
    /\ a.source = b.source
    /\ a.pub = b.pub
    /\ IF a.source = "websocket" THEN a.content = b.content
       ELSE a.content.s = b.content.s

\* s is the beginning of t.
StartOf(s, t) ==
    /\ Len(s) <= Len(t)
    /\ \A i \in 1..Len(s) : SameItem(s[i], t[i])

\* A step puts at most one item on h's queue, behind everything put before,
\* and takes at most one item, the oldest that waits.
C27_FifoStep ==
    \A h \in Conns :
        /\ StartOf(Log(h), Log(h)')
        /\ Len(Log(h)') <= Len(Log(h)) + 1
        /\ StartOf(handled[h], handled'[h])
        /\ Len(handled'[h]) <= Len(handled[h]) + 1
        /\ nrecv'[h] # nrecv[h] =>
              /\ Len(Log(h)') = Len(Log(h)) + 1
              /\ Last(Log(h)').source = "websocket"
        /\ (npub' # npub /\ Len(Log(h)') # Len(Log(h))) => Last(Log(h)').pub = npub'

\* Backend messages are taken, and their frames sent, in the order the router
\* received them.
C27_RouterOrder ==
    \A h \in Conns :
        /\ \A i, j \in 1..Len(Log(h)) :
              (i < j /\ Log(h)[i].pub > 0 /\ Log(h)[j].pub > 0) => Log(h)[i].pub < Log(h)[j].pub
        /\ \A i, j \in 1..Len(sent[h]) :
              (i < j /\ sent[h][i].pub > 0 /\ sent[h][j].pub > 0) => sent[h][i].pub < sent[h][j].pub

\* C27: within one connection delivery is FIFO: lines are handled in the
\* order they were read, backend messages that pass the filters are sent in
\* the order the router received them, and no item is handled before an item
\* put on the same queue earlier.
C27_FifoWithinConnection ==
    /\ []C27_RouterOrder
    /\ [][C27_FifoStep]_vars

\* SUB alpha, two messages on alpha, then PING read behind them: the two
\* frames were sent in the router's order before PING was handled.
C27_Witness ==
    /\ Len(handled[1]) = 4
    /\ handled[1][1].source = "websocket"
    /\ handled[1][2].pub = 1
    /\ handled[1][3].pub = 2
    /\ handled[1][4].source = "websocket"
    /\ handled[1][4].content = Line1(<<"PING">>)
    /\ Len(sent[1]) >= 3
    /\ sent[1][2].pub = 1
    /\ sent[1][3].pub = 2


\* ---------------------------------------------------------------------------
\* State per connection
\* ---------------------------------------------------------------------------

\* Two sessions with the geo commands, and the backend publishing on egg,
\* while both sessions last: no peer closes, and keep_alive_timeout is None,
\* the default, so no session runs out of time.  None of the lines is
\* answered with a frame.
NextPerConn ==
    \/ \E h \in Conns : Connect(h)
    \/ \E h \in Conns : \E line \in PerConnLines : ReaderRecvWithin(h, line, MaxGeoLines)
    \/ \E h \in Conns : ListenOpen(h)
    \/ \E h \in Conns : LoopCheck(h)
    \/ \E h \in Conns : HandleRemote(h)
    \/ \E h \in Conns : HandleBackend(h)
    \/ \E h \in Conns : SendForward(h)
    \/ \E text \in PerConnTexts : Publish("egg", text)

SpecPerConn == InitEdge /\ [][NextPerConn]_vars

\* The frames g got for the backend message it took last are what its own
\* pipeline, box and projection make of that message.
OwnFiltersDecide(g) ==
    LET f == _apply_filters(Self(g), Last(handled[g]).content, "")
    IN  IF f.passes
        THEN /\ Len(ReplyFrames(g)) = 1
             /\ SameDoc(ReplyFrames(g)[1].content, f.data)
             /\ ReplyFrames(g)[1].source = Last(handled[g]).source
        ELSE ReplyFrames(g) = <<>>

\* A line taken on h leaves the state of every other connection as it was.
C28_OthersUntouched ==
    \A h \in Conns : TakesLine(h) => \A g \in Conns \ {h} : SameHandlerState(g)

\* What a connection gets for a backend message depends on its own state.
C28_OwnStateDecides ==
    \A g \in Conns :
        (/\ handled[g] # <<>>
         /\ Last(handled[g]).source # "websocket"
         /\ Completed(g)) => OwnFiltersDecide(g)

\* C28: filter, box, projection and subscription state is per connection: a
\* BBOX, PROJECTION, SUB or DEL handled on one connection changes none of
\* them on another connection, and what another connection receives for a
\* backend message is decided by its own state alone.
C28_StatePerConnection ==
    /\ []C28_OwnStateDecides
    /\ [][C28_OthersUntouched]_vars

\* Both subscribed to egg, connection 1 installed the box (1, 2, 3, 4); the
\* point (0.1, 3.5) published on egg was dropped on 1 and sent as published
\* to 2, whose box and pipeline are as constructed.
C28_Witness ==
    /\ HasFilter(1, "bbox")
    /\ bbox[1] = BoundingBox(10, 20, 30, 40)
    /\ filters[2] = <<>>
    /\ bbox[2] = None
    /\ projection_out[2] = None
    /\ handled[1] # <<>> /\ Last(handled[1]).pub = 1 /\ Completed(1)
    /\ handled[2] # <<>> /\ Last(handled[2]).pub = 1 /\ Completed(2)
    /\ Last(handled[2]).content.s = "Point[0.1, 3.5]"
    /\ ReplyFrames(1) = <<>>
    /\ Len(ReplyFrames(2)) = 1
    /\ SameDoc(ReplyFrames(2)[1].content, loads("Point[0.1, 3.5]"))


\* ---------------------------------------------------------------------------
\* The fan-out pass and the registry
\* ---------------------------------------------------------------------------

\* This step, the router receives a message and passes over the registry.
FanOutPass == npub' = npub + 1

\* This step, h's queue gets the message of this pass.
GetsMessage(h) ==
    /\ Len(queue'[h]) = Len(queue[h]) + 1
    /\ Last(queue'[h]).pub = npub'

\* This step, a backend message is put on h's queue.
Enqueued(h) ==
    /\ Len(Log(h)') = Len(Log(h)) + 1
    /\ Last(Log(h)').pub > 0

\* A pass sees one registry: it is the same before and after the step, and
\* the message goes to exactly the registered handlers subscribed to its
\* channel.  A step that changes the registry puts no message on any queue.
C29_PassStep ==
    /\ FanOutPass =>
          /\ handlers' = handlers
          /\ subscriptions' = subscriptions
          /\ \A h \in Conns :
                GetsMessage(h) <=> (h \in handlers /\ router_channel' \in subscriptions[h])
    /\ handlers' # handlers =>
          /\ npub' = npub
          /\ \A h \in Conns : ~Enqueued(h)
    /\ (\E h \in Conns : Enqueued(h)) => FanOutPass

\* C29: the pass over the registry for one backend message runs to its end
\* without a connect or disconnect in between: it sees one set of
\* connections.
C29_FanOutPassAtomic == [][C29_PassStep]_vars

\* Both sessions subscribed to alpha, session 2 was torn down, and the
\* message published on alpha is on session 1's queue only.
C29_Witness ==
    /\ 1 \in handlers
    /\ TornDown(2)
    /\ "alpha" \in subscriptions[1]
    /\ "alpha" \in subscriptions[2]
    /\ npub = 1
    /\ queue[1] # <<>> /\ Last(queue[1]).pub = 1
    /\ \A i \in 1..Len(Log(2)) : Log(2)[i].pub = 0

\* ---------------------------------------------------------------------------
\* One reader and one processor per connection
\* ---------------------------------------------------------------------------

\* The handler of the item taken last is still running: it has frames to
\* send.
HandlerRunning(h) == listen_task[h] \in {"reply", "forward"}

\* The reader task is started once, with the session, and never again; an
\* item is taken only by a listen task that waits, the handler of the item
\* before being through; and a frame sent is a frame of the item taken last.
C30_TaskStep ==
    \A h \in Conns :
        /\ (consumer_task'[h] = "running" /\ consumer_task[h] # "running") =>
              (consumer_task[h] = "none" /\ websocket[h] = "new")
        /\ (listen_task'[h] = "start" /\ listen_task[h] # "start") =>
              (listen_task[h] = "none" /\ websocket[h] = "new")
        /\ Takes(h) => (listen_task[h] = "wait" /\ pending[h] = <<>>)
        /\ Sends(h) =>
              (listen_task[h] \in {"start", "reply", "forward"}
               /\ (HandlerRunning(h) => Last(sent'[h]) = Head(pending[h])))

\* Frames wait to be sent only while a handler runs.
C30_OneHandlerAtATime ==
    \A h \in Conns :
        /\ pending[h] # <<>> <=> HandlerRunning(h)
        /\ consumer_task[h] = "running" => websocket[h] = "open"

\* C30: each connection has at most one active reader task and one active
\* processor task: no second reader is started, and the processor takes the
\* next item only after the handler of the item before is through.
C30_OneReaderOneProcessor ==
    /\ []C30_OneHandlerAtATime
    /\ [][C30_TaskStep]_vars

\* PING is being answered while a backend message waits on the queue: it is
\* not taken before the answer is sent.
C30_Witness ==
    /\ listen_task[1] = "reply"
    /\ LastIsPing(1)
    /\ queue[1] # <<>>
    /\ Head(queue[1]).pub = 1
    /\ consumer_task[1] = "running"


\* ---------------------------------------------------------------------------
\* _apply_filters
\* ---------------------------------------------------------------------------

\* One session building its pipeline, asking for a key that is not stored,
\* and the backend publishing points on egg.
NextApply ==
    \/ Connect(1)
    \/ PeerClose(1)
    \/ \E line \in ApplyLines : ReaderRecvWithin(1, line, MaxGeoLines)
    \/ Session(1)
    \/ \E text \in PerConnTexts : Publish("egg", text)
    \/ Timeout(1)
    \/ Teardown(1)

SpecApply == InitEdge /\ [][NextApply]_vars

\* What each filter entry that is not excluded returns when every one of
\* them is invoked in turn on the document.
RECURSIVE FilterReturns(_, _, _, _)
FilterReturns(self, names, data, exclude) ==
    IF names = <<>> THEN <<>>
    ELSE IF NameInExclude(Head(names), exclude)
    THEN FilterReturns(self, Tail(names), data, exclude)
    ELSE IF Head(names) = "bbox"
    THEN <<_bbox_filter(self.bbox, data, None)>>
         \o FilterReturns(self, Tail(names), data, exclude)
    ELSE <<TRUE>>
         \o FilterReturns(self, Tail(names),
                          _projection_filter(self.projection_out, data, None), exclude)

\* The logical AND of those returns; TRUE for none.
AndOfFilters(self, message, exclude) ==
    LET rs == FilterReturns(self, self.filters, loads(message.s), exclude)
    IN  \A i \in 1..Len(rs) : rs[i]

\* The last item taken is a backend message, handled to its end.
ForwardDecided(h) ==
    /\ handled[h] # <<>>
    /\ Last(handled[h]).source # "websocket"
    /\ Completed(h)

\* The last line taken is GET egg nokey, handled to its end.
AnsweredGetMissing(h) ==
    /\ LastIsLine(h)
    /\ Last(handled[h]).content = Line3(<<"GET">>, <<"egg">>, <<"nokey">>)
    /\ Completed(h)

C31_WitnessNone ==
    AnsweredGetMissing(1) /\ filters[1] = <<"bbox">>

\* A message that passed both filters and one that passed an empty pipeline.
C31_WitnessBoth ==
    /\ ForwardDecided(1)
    /\ Len(filters[1]) = 2
    /\ Len(ReplyFrames(1)) = 1


\* ---------------------------------------------------------------------------
\* The order of the pipeline's entries
\* ---------------------------------------------------------------------------

\* self.filters of a connection that issued the same two commands in the
\* other order.
OtherOrder(names) == [i \in 1..Len(names) |-> names[Len(names) + 1 - i]]

\* Both filters are installed on h.
BothInstalled(h) == HasFilter(h, "bbox") /\ HasFilter(h, "projection")

\* C32: the insertion order of the entries does not matter to the result: for
\* a backend message handled with both filters installed, _apply_filters
\* gives the same passed flag to the connection that issued the commands in
\* the other order, with the same box and the same reference.
C32_OrderIrrelevant ==
    \A h \in Conns :
        (ForwardDecided(h) /\ BothInstalled(h)) =>
            (_apply_filters(Self(h), Last(handled[h]).content, "").passes
             <=> _apply_filters([Self(h) EXCEPT !.filters = OtherOrder(@)],
                                Last(handled[h]).content, "").passes)

\* BBOX 1 2 3 4, then PROJECTION epsg:3857: the point (2.1, 3.5) published on
\* egg was sent, projected.
C32_BboxFirstSent ==
    /\ ForwardDecided(1)
    /\ filters[1] = <<"bbox", "projection">>
    /\ bbox[1] = BoundingBox(10, 20, 30, 40)
    /\ Last(handled[1]).content.s = "Point[2.1, 3.5]"
    /\ Len(ReplyFrames(1)) = 1

\* PROJECTION epsg:3857, then BBOX 1 2 3 4: the same point was dropped, the
\* box being tested on the projected coordinates.
C32_ProjectionFirstDropped ==
    /\ ForwardDecided(1)
    /\ filters[1] = <<"projection", "bbox">>
    /\ bbox[1] = BoundingBox(10, 20, 30, 40)
    /\ projection_out[1] = PyStr("epsg:3857")
    /\ Last(handled[1]).content.s = "Point[2.1, 3.5]"
    /\ ReplyFrames(1) = <<>>


\* ---------------------------------------------------------------------------
\* Backend messages and the command dispatcher
\* ---------------------------------------------------------------------------

\* One session subscribing to alpha and to a channel named websocket, and the
\* backend publishing command-like and JSON payloads on both.
NextInject ==
    \/ Connect(1)
    \/ PeerClose(1)
    \/ \E line \in InjectLines : ReaderRecv(1, line)
    \/ Session(1)
    \/ \E c \in InjectChannels : \E text \in InjectTexts : Publish(c, text)
    \/ Timeout(1)
    \/ Teardown(1)

SpecInject == Init /\ [][NextInject]_vars

\* This step, _queue_reader takes an item the router put on h's queue.
TakesRouterItem(h) == Takes(h) /\ Head(queue[h]).pub > 0

\* The item taken is not dispatched as a command: no handler state changes,
\* no reply is started, no redis call is made and no
\* RemoteMessageHandlerError is raised.
NotDispatched(h) ==
    /\ SameHandlerState(h)
    /\ listen_task'[h] # "reply"
    /\ redis_calls' = redis_calls
    /\ failure'[h] # "RemoteMessageHandlerError"

\* A message the router put on a connection's queue is not parsed or
\* dispatched as a client command, whatever its channel and payload.
C33_RouterItemNotDispatched ==
    \A h \in Conns : TakesRouterItem(h) => NotDispatched(h)

\* The same for every channel but the one named websocket.
C33_OtherChannelsNotDispatched ==
    \A h \in Conns :
        (TakesRouterItem(h) /\ Head(queue[h]).source # "websocket") => NotDispatched(h)

\* C33, over every step: no item the router put is dispatched as a command.
C33_NeverDispatched == [][C33_RouterItemNotDispatched]_vars

\* What holds: a message on another channel is never dispatched.
C33_HoldsElsewhere == [][C33_OtherChannelsNotDispatched]_vars

\* The client sent SUB websocket only; the payload "SUB egg" published on the
\* channel websocket subscribed it to egg.
C33_Injected ==
    /\ Len(handled[1]) = 2
    /\ handled[1][1].pub = 0
    /\ handled[1][1].content = Line2(<<"SUB">>, <<"websocket">>)
    /\ handled[1][2].pub = 1
    /\ handled[1][2].source = "websocket"
    /\ handled[1][2].content.s = "SUB egg"
    /\ nrecv[1] = 1
    /\ subscriptions[1] = {"websocket", "egg"}

\* The payload "PING" published on the channel websocket was answered with
\* PONG.
C33_Ponged ==
    /\ Len(handled[1]) = 2
    /\ handled[1][2].pub = 1
    /\ handled[1][2].content.s = "PING"
    /\ Completed(1)
    /\ ReplyFrames(1) = <<PongFrame>>


\* ---------------------------------------------------------------------------
\* The frames of one reply
\* ---------------------------------------------------------------------------

\* One session asking for the three documents of egg while the backend
\* publishes on egg.
NextReply ==
    \/ Connect(1)
    \/ PeerClose(1)
    \/ \E line \in ReplyLines : ReaderRecvWithin(1, line, MaxGeoLines)
    \/ Session(1)
    \/ \E text \in PgetBackendTexts : Publish("egg", text)
    \/ Timeout(1)
    \/ Teardown(1)

SpecReply == InitEdge /\ [][NextReply]_vars

\* The last line taken is GET egg or PGET egg.
LastAsksEgg(h) ==
    /\ LastIsLine(h)
    /\ Last(handled[h]).pub = 0
    /\ Last(handled[h]).content \in {Line2(<<"GET">>, <<"egg">>), Line2(<<"PGET">>, <<"egg">>)}

\* The reply to GET egg or PGET egg is being sent.
ReplyInProgress(h) == LastAsksEgg(h) /\ listen_task[h] = "reply"

\* The frames sent since GET egg or PGET egg was taken are the first frames
\* of its reply, the stored documents in their order, and all of them once
\* the command has returned.
C34_OnlyReplyFrames ==
    \A h \in Conns :
        (LastAsksEgg(h) /\ filters[h] = <<>>) =>
            /\ Len(ReplyFrames(h)) <= Len(StoreDocs("egg"))
            /\ \A i \in 1..Len(ReplyFrames(h)) :
                  /\ ReplyFrames(h)[i].pub = 0
                  /\ ReplyFrames(h)[i].source = "egg"
                  /\ SameDoc(ReplyFrames(h)[i].content, StoreDocs("egg")[i])
            /\ Completed(h) => Len(ReplyFrames(h)) = Len(StoreDocs("egg"))

\* While a reply is being sent nothing else is taken from the queue, and
\* what is written to the transport is the next frame of the reply.
C34_ReplyStep ==
    \A h \in Conns :
        listen_task[h] = "reply" =>
            /\ ~Takes(h)
            /\ sent'[h] # sent[h] => sent'[h] = Append(sent[h], Head(pending[h]))

\* C34: the frames of one command's reply are contiguous in what is sent to
\* the client: between the first and the last frame of the reply to GET egg
\* or PGET egg no frame of a backend message, no PONG and no frame of another
\* command is sent, also when a backend message is put on the queue
\* meanwhile.
C34_ReplyContiguous ==
    /\ []C34_OnlyReplyFrames
    /\ [][C34_ReplyStep]_vars

\* The first frame of the reply to GET egg is sent, the others are not yet,
\* and a message published on egg waits on the queue.
C34_Witness ==
    /\ ReplyInProgress(1)
    /\ Last(handled[1]).content = Line2(<<"GET">>, <<"egg">>)
    /\ Len(ReplyFrames(1)) = 1
    /\ "egg" \in subscriptions[1]
    /\ queue[1] # <<>>
    /\ Head(queue[1]).pub = 1

\* The whole reply to PGET egg was sent before the waiting message.
C34_WitnessDone ==
    /\ LastAsksEgg(1)
    /\ Last(handled[1]).content = Line2(<<"PGET">>, <<"egg">>)
    /\ Completed(1)
    /\ Len(ReplyFrames(1)) = 3
    /\ queue[1] # <<>>
    /\ Head(queue[1]).pub = 1


\* ---------------------------------------------------------------------------
\* The keys of the pipeline
\* ---------------------------------------------------------------------------

\* One session and its BBOX, PROJECTION and PGET lines.
NextKeys ==
    \/ Connect(1)
    \/ PeerClose(1)
    \/ \E line \in KeyLines : ReaderRecvWithin(1, line, MaxGeoLines)
    \/ ListenOpen(1)
    \/ LoopCheck(1)
    \/ HandleRemote(1)
    \/ SendReply(1)
    \/ Timeout(1)
    \/ Teardown(1)

SpecKeys == InitEdge /\ [][NextKeys]_vars

\* self.bbox is a BoundingBox.
IsBoundingBox(b) == ~IsNone(b) /\ DOMAIN b = {"left", "bottom", "right", "top"}

\* self.projection_out is a Proj that get_projection resolved for an
\* identifier other than the default.
IsResolvedNonDefault(p) ==
    /\ ~IsNone(p)
    /\ p.s \in Resolvable
    /\ p.s # default_projection

\* C35: after any sequence of BBOX, PROJECTION and PGET commands the pipeline
\* holds no key but "bbox" and "projection", each at most once; with "bbox"
\* in it a BoundingBox is set, with "projection" in it a resolved output
\* projection other than the default is set.
C35_PipelineKeys ==
    \A h \in Conns :
        /\ \A i \in 1..Len(filters[h]) : filters[h][i] \in {"bbox", "projection"}
        /\ \A i, j \in 1..Len(filters[h]) : filters[h][i] = filters[h][j] => i = j
        /\ HasFilter(h, "bbox") => IsBoundingBox(bbox[h])
        /\ HasFilter(h, "projection") => IsResolvedNonDefault(projection_out[h])

\* BBOX 1 2 3 4, PROJECTION epsg:3857, then PROJECTION bogus: both keys are
\* in the pipeline, the box and the projection epsg:3857 are set.
C35_Witness ==
    /\ Len(handled[1]) = 3
    /\ handled[1][3].content = Line2(<<"PROJECTION">>, <<"bogus">>)
    /\ Completed(1)
    /\ filters[1] = <<"bbox", "projection">>
    /\ bbox[1] = BoundingBox(10, 20, 30, 40)
    /\ projection_out[1] = PyStr("epsg:3857")

\* Both installed, then both removed, the box and the projection staying
\* set; and PGET with a one-off reference with the projection installed.
C35_WitnessRemoved ==
    /\ filters[1] = <<>>
    /\ IsBoundingBox(bbox[1])
    /\ Len(handled[1]) = 3
    /\ Completed(1)

C35_WitnessPget ==
    /\ Len(handled[1]) = 3
    /\ handled[1][3].content = Line3(<<"PGET">>, <<"egg">>, <<"projection", "=", "epsg:2056">>)
    /\ Completed(1)
    /\ filters[1] = <<"projection", "bbox">>

====
